---- MODULE Spec2Model ----
(***************************************************************************)
(* The review-response reconciliation engine of ai-code-review:            *)
(* services/review-processor.js (parseReviewResponse,                      *)
(* validateAndFixLineNumbers and the line matcher behind it) together with *)
(* parseFileContents of services/code-snippet-extractor.js.                *)
(*                                                                         *)
(* Text is modelled character by character: a JavaScript string is a       *)
(* sequence of one-character strings, so that trimming, splitting,         *)
(* substring search, the regular expressions and JSON.parse are computed   *)
(* as the code computes them.  Numbers that the code compares against      *)
(* thresholds (similarities, keyword scores, confidences) are exact        *)
(* rationals <<numerator, denominator>>.                                   *)
(***************************************************************************)
EXTENDS Integers, Sequences, FiniteSets, TLC

-----------------------------------------------------------------------------
(* Characters and character classes *)

NL == "\n"
DQ == "\""
BS == "\\"

\* the backtick character (a string literal cannot hold one)
BT == "BT"

Digits == {"0", "1", "2", "3", "4", "5", "6", "7", "8", "9"}

DigitSeq == <<"0", "1", "2", "3", "4", "5", "6", "7", "8", "9">>

LowerLetters ==
  <<"a", "b", "c", "d", "e", "f", "g", "h", "i", "j", "k", "l", "m",
    "n", "o", "p", "q", "r", "s", "t", "u", "v", "w", "x", "y", "z">>

UpperLetters ==
  <<"A", "B", "C", "D", "E", "F", "G", "H", "I", "J", "K", "L", "M",
    "N", "O", "P", "Q", "R", "S", "T", "U", "V", "W", "X", "Y", "Z">>

LowerSet == {LowerLetters[k] : k \in DOMAIN LowerLetters}

UpperSet == {UpperLetters[k] : k \in DOMAIN UpperLetters}

\* \w of a JavaScript regular expression
WordChars == LowerSet \cup UpperSet \cup Digits \cup {"_"}

\* \s of a JavaScript regular expression, and what String.prototype.trim strips
WhiteSpace == {" ", NL, "\t", "\r"}

\* [!=<>] of the comparison pattern
ComparisonChars == {"!", "=", "<", ">"}

-----------------------------------------------------------------------------
(* String primitives of JavaScript on sequences of characters.  Positions  *)
(* handed to and returned by these operators are 0-based, as in the code;  *)
(* -1 is "not found".                                                      *)

SetMin(S) == CHOOSE x \in S : \A y \in S : x <= y

SetMax(S) == CHOOSE x \in S : \A y \in S : x >= y

Min2(a, b) == IF a <= b THEN a ELSE b

Max2(a, b) == IF a >= b THEN a ELSE b

\* s.slice(from, to) for 0 <= from, to <= s.length
slice(s, from, to) == IF to <= from THEN << >> ELSE SubSeq(s, from + 1, to)

\* p occurs in s at 0-based position i
occursAt(s, p, i) ==
  /\ i >= 0
  /\ i + Len(p) <= Len(s)
  /\ \A k \in 1..Len(p) : s[i + k] = p[k]

\* s.includes(p)
includes(s, p) == \E i \in 0..(Len(s) - Len(p)) : occursAt(s, p, i)

\* s.indexOf(p)
indexOf(s, p) ==
  LET hits == {i \in 0..(Len(s) - Len(p)) : occursAt(s, p, i)}
  IN  IF hits = {} THEN -1 ELSE SetMin(hits)

\* s.lastIndexOf(p)
lastIndexOf(s, p) ==
  LET hits == {i \in 0..(Len(s) - Len(p)) : occursAt(s, p, i)}
  IN  IF hits = {} THEN -1 ELSE SetMax(hits)

\* s.startsWith(p)
startsWith(s, p) == occursAt(s, p, 0)

\* s.endsWith(p)
endsWith(s, p) == occursAt(s, p, Len(s) - Len(p))

\* s.trim()
trim(s) ==
  LET keep == {i \in 1..Len(s) : s[i] \notin WhiteSpace}
  IN  IF keep = {} THEN << >> ELSE SubSeq(s, SetMin(keep), SetMax(keep))

toLowerChar(c) ==
  IF c \in UpperSet
  THEN LowerLetters[CHOOSE k \in DOMAIN UpperLetters : UpperLetters[k] = c]
  ELSE c

\* s.toLowerCase()
toLowerCase(s) == [i \in 1..Len(s) |-> toLowerChar(s[i])]

\* the 1-based positions i of 1..n with Test(i), in increasing order
positionsWhere(n, Test(_)) == SelectSeq([i \in 1..n |-> i], Test)

\* s.split(sep) for a one-character separator: always at least one piece
split(s, sep) ==
  LET IsCut(i) == s[i] = sep
      cuts == positionsWhere(Len(s), IsCut)
      n == Len(cuts)
      \* the position of the separator that ends the k-th piece
      cut(k) == IF k = 0 THEN 0 ELSE IF k = n + 1 THEN Len(s) + 1 ELSE cuts[k]
  IN  [k \in 1..(n + 1) |-> SubSeq(s, cut(k - 1) + 1, cut(k) - 1)]

\* lines.join('\n')
joinLines(lines) ==
  LET F[k \in 0..Len(lines)] ==
        IF k = 0 THEN << >>
        ELSE IF k = 1 THEN lines[1]
        ELSE F[k - 1] \o <<NL>> \o lines[k]
  IN  F[Len(lines)]

\* the elements of seq without repetitions, in order of first occurrence:
\* [...new Set(seq)]
uniqueInOrder(seq) ==
  LET F[i \in 0..Len(seq)] ==
        IF i = 0 THEN << >>
        ELSE IF \E j \in 1..(i - 1) : seq[j] = seq[i] THEN F[i - 1]
        ELSE Append(F[i - 1], seq[i])
  IN  F[Len(seq)]

\* the set of characters of s: new Set(s)
charSet(s) == {s[i] : i \in 1..Len(s)}

\* the end (exclusive, 0-based) of the longest run of characters of class C
\* that starts at 0-based position i
runEnd(s, i, C) ==
  LET stops == {j \in i..(Len(s) - 1) : s[j + 1] \notin C}
  IN  IF stops = {} THEN Max2(i, Len(s)) ELSE SetMin(stops)

-----------------------------------------------------------------------------
(* Exact rationals *)

Rat(n, d) == <<n, d>>

RatLt(a, b) == a[1] * b[2] < b[1] * a[2]

RatEq(a, b) == a[1] * b[2] = b[1] * a[2]

RatMin(a, b) == IF RatLt(b, a) THEN b ELSE a

Zero == Rat(0, 1)

One == Rat(1, 1)

-----------------------------------------------------------------------------
(* JavaScript values as JSON.parse produces them, plus undefined.  Every   *)
(* value is a record of the same shape: t is the type tag, n/d the number  *)
(* (a reduced fraction; a boolean keeps 1 or 0 in n), s the characters of  *)
(* a string, keys/kids the property names and values of an object in       *)
(* insertion order, kids alone the elements of an array.                   *)

RECURSIVE Gcd(_, _)
Gcd(a, b) == IF b = 0 THEN a ELSE Gcd(b, a % b)

Abs(x) == IF x < 0 THEN -x ELSE x

JV(t, n, d, s, keys, kids) ==
  [t |-> t, n |-> n, d |-> d, s |-> s, keys |-> keys, kids |-> kids]

JUndef == JV("undefined", 0, 1, << >>, << >>, << >>)

JNull == JV("null", 0, 1, << >>, << >>, << >>)

JBool(b) == JV("boolean", IF b THEN 1 ELSE 0, 1, << >>, << >>, << >>)

\* the number n/d, d > 0
JNum(n, d) ==
  LET g == Gcd(Abs(n), d)
  IN  JV("number", n \div g, d \div g, << >>, << >>, << >>)

JInt(n) == JV("number", n, 1, << >>, << >>, << >>)

JStr(s) == JV("string", 0, 1, s, << >>, << >>)

JArr(kids) == JV("array", 0, 1, << >>, << >>, kids)

JObj(keys, kids) == JV("object", 0, 1, << >>, keys, kids)

\* v.key for a value that is neither null nor undefined
GetProp(v, key) ==
  IF v.t = "object" /\ \E k \in 1..Len(v.keys) : v.keys[k] = key
  THEN v.kids[CHOOSE k \in 1..Len(v.keys) : v.keys[k] = key]
  ELSE JUndef

\* {...obj, key: val}: an existing property keeps its place
SetProp(obj, key, val) ==
  IF \E k \in 1..Len(obj.keys) : obj.keys[k] = key
  THEN JObj(obj.keys,
            [k \in 1..Len(obj.kids) |->
               IF obj.keys[k] = key THEN val ELSE obj.kids[k]])
  ELSE JObj(Append(obj.keys, key), Append(obj.kids, val))

\* ToBoolean
Truthy(v) ==
  CASE v.t \in {"undefined", "null"} -> FALSE
    [] v.t = "boolean" -> v.n = 1
    [] v.t = "number" -> v.n # 0
    [] v.t = "string" -> v.s # << >>
    [] OTHER -> TRUE

IsNullish(v) == v.t \in {"undefined", "null"}

\* the decimal digits of a natural number
RECURSIVE NatToString(_)
NatToString(n) ==
  IF n < 10 THEN <<DigitSeq[n + 1]>>
  ELSE NatToString(n \div 10) \o <<DigitSeq[(n % 10) + 1]>>

DigitValue(c) == CHOOSE k \in 0..9 : DigitSeq[k + 1] = c

\* the value of a non-empty sequence of digits
DigitsValue(ds) ==
  LET F[i \in 0..Len(ds)] ==
        IF i = 0 THEN 0 ELSE 10 * F[i - 1] + DigitValue(ds[i])
  IN  F[Len(ds)]

Pow10(k) ==
  LET F[i \in 0..k] == IF i = 0 THEN 1 ELSE 10 * F[i - 1]
  IN  F[k]

-----------------------------------------------------------------------------
(* The line matcher of services/review-processor.js *)

\* String.prototype.match with a global regular expression: the matches, left to
\* right and not overlapping.  End(s, i) is the end (exclusive) of the match the
\* expression finds at position i, or -1; none of the expressions used here can
\* match the empty string.
matchAll(s, End(_, _)) ==
  LET \* every position a match can start at
      starts == {i \in 0..(Len(s) - 1) : End(s, i) > i}
      \* the matches found when the scan resumes at position from
      F[from \in 0..Len(s)] ==
        IF {i \in starts : i >= from} = {} THEN << >>
        ELSE LET i == SetMin({j \in starts : j >= from})
             IN  <<slice(s, i, End(s, i))>> \o F[End(s, i)]
  IN  F[0]

\* character at 0-based position i, or "" past the end
charAt(s, i) == IF i >= 0 /\ i < Len(s) THEN s[i + 1] ELSE ""

\* \b between positions i - 1 and i
wordBoundary(s, i) ==
  (charAt(s, i - 1) \in WordChars) # (charAt(s, i) \in WordChars)

\* a backtick, one or more characters other than a backtick, a backtick
backtickEnd(s, i) ==
  IF charAt(s, i) # BT THEN -1
  ELSE LET close == runEnd(s, i + 1, (charSet(s) \ {BT}))
       IN  IF close > i + 1 /\ charAt(s, close) = BT THEN close + 1 ELSE -1

\* /\b(\w+)\s*\(/
callEnd(s, i) ==
  IF ~(charAt(s, i) \in WordChars /\ wordBoundary(s, i)) THEN -1
  ELSE LET w == runEnd(s, i, WordChars)
           ws == runEnd(s, w, WhiteSpace)
       IN  IF charAt(s, ws) = "(" THEN ws + 1 ELSE -1

\* /\$\w+|\w+\s*=/
variableEnd(s, i) ==
  IF charAt(s, i) = "$" /\ charAt(s, i + 1) \in WordChars
  THEN runEnd(s, i + 1, WordChars)
  ELSE IF charAt(s, i) \in WordChars
  THEN LET w == runEnd(s, i, WordChars)
           ws == runEnd(s, w, WhiteSpace)
       IN  IF charAt(s, ws) = "=" THEN ws + 1 ELSE -1
  ELSE -1

\* /\((\d+)\)|\b(\d{2,3})\b/
numericEnd(s, i) ==
  IF charAt(s, i) = "(" /\ charAt(s, i + 1) \in Digits
       /\ charAt(s, runEnd(s, i + 1, Digits)) = ")"
  THEN runEnd(s, i + 1, Digits) + 1
  ELSE IF charAt(s, i) \in Digits /\ wordBoundary(s, i)
  THEN LET count == runEnd(s, i, Digits) - i
       IN  IF count >= 3 /\ wordBoundary(s, i + 3) THEN i + 3
           ELSE IF count >= 2 /\ wordBoundary(s, i + 2) THEN i + 2
           ELSE -1
  ELSE -1

\* /[!=<>]+\s*\d+|\d+\s*[!=<>]/
comparisonEnd(s, i) ==
  IF charAt(s, i) \in ComparisonChars
  THEN LET ws == runEnd(s, runEnd(s, i, ComparisonChars), WhiteSpace)
           d == runEnd(s, ws, Digits)
       IN  IF d > ws THEN d ELSE -1
  ELSE IF charAt(s, i) \in Digits
  THEN LET ws == runEnd(s, runEnd(s, i, Digits), WhiteSpace)
       IN  IF charAt(s, ws) \in ComparisonChars THEN ws + 1 ELSE -1
  ELSE -1

\* the match with its backticks removed
withoutBackticks(s) == SelectSeq(s, LAMBDA c : c # BT)

trimAll(seq) == [k \in 1..Len(seq) |-> trim(seq[k])]

\* the candidate code fragments of a comment's prose, in pool order
extractCodeSnippetsFromComment(commentText) ==
  LET backtickMatches == matchAll(commentText, backtickEnd)
      functionMatches == matchAll(commentText, callEnd)
      variableMatches == matchAll(commentText, variableEnd)
      numericMatches == matchAll(commentText, numericEnd)
      comparisonMatches == matchAll(commentText, comparisonEnd)
      snippets ==
        [k \in 1..Len(backtickMatches) |->
           trim(withoutBackticks(backtickMatches[k]))]
          \o trimAll(functionMatches)
          \o trimAll(variableMatches)
          \o trimAll(numericMatches)
          \o trimAll(comparisonMatches)
  IN  SelectSeq(uniqueInOrder(snippets), LAMBDA snippet : Len(snippet) > 1)

\* a match of one strategy, or none (found = FALSE)
Match(lineNumber, matchedText, confidence) ==
  [found |-> TRUE, lineNumber |-> lineNumber, matchedText |-> matchedText,
   confidence |-> confidence]

NoMatch ==
  [found |-> FALSE, lineNumber |-> 0, matchedText |-> << >>, confidence |-> Zero]

\* /^\d+$/.test(codeSnippet)
isPureNumber(codeSnippet) ==
  codeSnippet # << >> /\ \A k \in 1..Len(codeSnippet) : codeSnippet[k] \in Digits

\* the test findExactCodeMatch applies to one file line
exactLineTest(codeSnippet, line) ==
  IF isPureNumber(codeSnippet)
  THEN \/ includes(line, <<"=", "=", " ">> \o codeSnippet)
       \/ includes(line, <<"!", "=", " ">> \o codeSnippet)
       \/ includes(line, <<"<", " ">> \o codeSnippet)
       \/ includes(line, <<">", " ">> \o codeSnippet)
       \/ includes(line, codeSnippet \o <<")">>)
       \/ includes(line, <<"(">> \o codeSnippet)
  ELSE includes(line, codeSnippet)

\* findExactCodeMatch without its early return: the last file line that passes
\* the test
findExactCodeMatchLastLine(codeSnippet, fileLines) ==
  LET hits == {k \in 1..Len(fileLines) : exactLineTest(codeSnippet, fileLines[k])}
  IN  IF hits = {} THEN NoMatch
      ELSE Match(SetMax(hits), trim(fileLines[SetMax(hits)]), One)

\* the first file line that passes the test
findExactCodeMatch(codeSnippet, fileLines) ==
  LET hits == {k \in 1..Len(fileLines) : exactLineTest(codeSnippet, fileLines[k])}
  IN  IF hits = {} THEN NoMatch
      ELSE Match(SetMin(hits), trim(fileLines[SetMin(hits)]), One)

\* containment ratio, or the Jaccard index of the two character sets
calculateSimilarity(string1, string2) ==
  LET s1 == trim(toLowerCase(string1))
      s2 == trim(toLowerCase(string2))
  IN  IF s1 = s2 THEN One
      ELSE IF Len(s1) = 0 \/ Len(s2) = 0 THEN Zero
      ELSE IF includes(s2, s1) \/ includes(s1, s2)
      THEN Rat(Min2(Len(s1), Len(s2)), Max2(Len(s1), Len(s2)))
      ELSE Rat(Cardinality(charSet(s1) \cap charSet(s2)),
               Cardinality(charSet(s1) \cup charSet(s2)))

\* The loops of findFuzzyCodeMatch and findKeywordMatch: over the non-blank
\* lines, the best match is replaced only by a strictly better one whose score
\* is above the threshold, so the loop ends on the first line that reaches the
\* highest score (0 when no line passes).
firstOfBest(score, candidates) ==
  IF candidates = {} THEN 0
  ELSE SetMin({k \in candidates : \A j \in candidates : ~RatLt(score[k], score[j])})

firstBest(fileLines, score, threshold) ==
  firstOfBest(score, {k \in 1..Len(fileLines) :
                        /\ trim(fileLines[k]) # << >>
                        /\ RatLt(Zero, score[k])
                        /\ RatLt(threshold, score[k])})

matchAt(fileLines, score, best) ==
  IF best = 0 THEN NoMatch ELSE Match(best, trim(fileLines[best]), score[best])

bestMatch(fileLines, score, threshold) ==
  matchAt(fileLines, score, firstBest(fileLines, score, threshold))

\* the first non-blank line of highest similarity, when that is above 0.7
findFuzzyCodeMatch(codeSnippet, fileLines) ==
  bestMatch(fileLines,
            [k \in 1..Len(fileLines) |->
               calculateSimilarity(codeSnippet, trim(fileLines[k]))],
            Rat(7, 10))


\* the words extractKeywords never keeps
stopWords ==
  {<<"t","h","e">>, <<"i","s">>, <<"a","t">>, <<"w","h","i","c","h">>, <<"o","n">>, <<"a","n","d">>, <<"o","r">>, <<"b","u","t">>,
   <<"w","i","l","l">>, <<"c","a","n">>, <<"s","h","o","u","l","d">>, <<"c","o","u","l","d">>, <<"w","o","u","l","d">>, <<"m","i","g","h","t">>, <<"m","a","y">>,
   <<"t","h","i","s">>, <<"t","h","a","t">>, <<"w","i","t","h">>, <<"f","o","r">>, <<"t","o">>, <<"o","f">>, <<"i","n">>, <<"b","y">>,
   <<"f","r","o","m">>, <<"a">>, <<"a","n">>}

\* [a-z0-9\s]: what the keyword filter leaves in place
KeywordChars == LowerSet \cup Digits \cup WhiteSpace

\* a run of characters other than white space
nonSpaceEnd(s, i) ==
  IF charAt(s, i) \in WhiteSpace THEN -1
  ELSE runEnd(s, i, charSet(s) \ WhiteSpace)

MaxKeywords == 10

MinKeywordLength == 3

\* lower-case words longer than three characters that are no stop words, the
\* first ten of them.  split(/\s+/) also yields empty pieces at the ends; the
\* length filter drops them, so only the non-empty pieces are computed here.
extractKeywords(text) ==
  LET lowered == toLowerCase(text)
      cleaned == [i \in 1..Len(lowered) |->
                    IF lowered[i] \in KeywordChars THEN lowered[i] ELSE " "]
      words == matchAll(cleaned, nonSpaceEnd)
      kept == SelectSeq(words,
                LAMBDA word : Len(word) > MinKeywordLength /\ word \notin stopWords)
  IN  SubSeq(kept, 1, Min2(Len(kept), MaxKeywords))

\* keywordScore without the lower-casing of the line
keywordScoreCaseSensitive(keywords, fileLine) ==
  Rat(Cardinality({k \in 1..Len(keywords) : includes(fileLine, keywords[k])}),
      Len(keywords))

\* the fraction of the keywords a (lower-cased) line contains
keywordScore(keywords, fileLine) ==
  LET line == toLowerCase(fileLine)
  IN  Rat(Cardinality({k \in 1..Len(keywords) : includes(line, keywords[k])}),
          Len(keywords))

\* line 303: Math.min(0.8, normalizedScore)
capped(match) ==
  IF match.found
  THEN [match EXCEPT !.confidence = RatMin(Rat(8, 10), match.confidence)]
  ELSE match

\* lines 281-308 for the keywords of a comment
keywordMatchOf(keywords, fileLines) ==
  IF Len(keywords) = 0 THEN NoMatch
  ELSE bestMatch(fileLines,
                 [k \in 1..Len(fileLines) |-> keywordScore(keywords, fileLines[k])],
                 Rat(1, 2))

\* findKeywordMatch without the cap of the confidence at 0.8
findKeywordMatchUncapped(commentText, fileLines) ==
  keywordMatchOf(extractKeywords(commentText), fileLines)

\* the first non-blank line of highest keyword score, when that is above 0.5,
\* with the confidence capped at 0.8
findKeywordMatch(commentText, fileLines) ==
  capped(keywordMatchOf(extractKeywords(commentText), fileLines))


-----------------------------------------------------------------------------
(* The coercions JavaScript applies where the code compares comment.line   *)
(* with numbers and indexes fileLines with it.                             *)

NaN == [nan |-> TRUE, n |-> 0, d |-> 1]

Number(n, d) == [nan |-> FALSE, n |-> n, d |-> d]

allDigits(s) == \A k \in 1..Len(s) : s[k] \in Digits

\* Number(string) for decimal literals: an optional sign, digits, an optional
\* fraction.  The empty string is 0.  Any other text is NaN here (hexadecimal,
\* exponent and Infinity literals are outside the texts the model draws).
decimalNumber(sign, whole, frac) ==
  IF allDigits(whole) /\ allDigits(frac) /\ Len(whole) + Len(frac) > 0
  THEN Number(sign * (DigitsValue(whole) * Pow10(Len(frac)) + DigitsValue(frac)),
              Pow10(Len(frac)))
  ELSE NaN

unsignedNumber(sign, body, dot) ==
  decimalNumber(sign,
                IF dot = -1 THEN body ELSE slice(body, 0, dot),
                IF dot = -1 THEN << >> ELSE slice(body, dot + 1, Len(body)))

signedNumber(sign, body) == unsignedNumber(sign, body, indexOf(body, <<".">>))

trimmedToNumber(t) ==
  IF t = << >> THEN Number(0, 1)
  ELSE IF t[1] = "-" THEN signedNumber(-1, Tail(t))
  ELSE IF t[1] = "+" THEN signedNumber(1, Tail(t))
  ELSE signedNumber(1, t)

StringToNumber(text) == trimmedToNumber(trim(text))

\* String(number) for a number whose decimal expansion terminates
NumberToString(n, d) ==
  LET k == CHOOSE j \in 0..9 : Pow10(j) % d = 0 /\ \A i \in 0..(j - 1) : Pow10(i) % d # 0
      scaled == (Abs(n) % d) * (Pow10(k) \div d)
      fracDigits == NatToString(scaled)
      padding == [i \in 1..(k - Len(fracDigits)) |-> "0"]
  IN  (IF n < 0 THEN <<"-">> ELSE << >>)
        \o NatToString(Abs(n) \div d)
        \o (IF k = 0 THEN << >> ELSE <<".">> \o padding \o fracDigits)

\* String(value): an array joins its elements with commas, null and undefined
\* elements as empty strings
RECURSIVE JsToString(_)
JsToString(v) ==
  CASE v.t = "string" -> v.s
    [] v.t = "number" -> NumberToString(v.n, v.d)
    [] v.t = "boolean" -> IF v.n = 1 THEN <<"t","r","u","e">> ELSE <<"f","a","l","s","e">>
    [] v.t = "null" -> <<"n","u","l","l">>
    [] v.t = "undefined" -> <<"u","n","d","e","f","i","n","e","d">>
    [] v.t = "object" -> <<"[","o","b","j","e","c","t"," ","O","b","j","e","c","t","]">>
    [] v.t = "array" ->
         LET F[i \in 0..Len(v.kids)] ==
               IF i = 0 THEN << >>
               ELSE F[i - 1]
                      \o (IF i > 1 THEN <<",">> ELSE << >>)
                      \o (IF IsNullish(v.kids[i]) THEN << >>
                          ELSE JsToString(v.kids[i]))
         IN  F[Len(v.kids)]

\* ToNumber
ToNumber(v) ==
  CASE v.t = "number" -> Number(v.n, v.d)
    [] v.t = "boolean" -> Number(v.n, 1)
    [] v.t = "null" -> Number(0, 1)
    [] v.t = "undefined" -> NaN
    [] v.t \in {"string", "array"} -> StringToNumber(JsToString(v))
    [] v.t = "object" -> NaN

\* value >= k and value <= k for an integer k; false when the value is NaN
NumGe(x, k) == ~x.nan /\ x.n >= k * x.d

NumLe(x, k) == ~x.nan /\ x.n <= k * x.d

\* fileLines[value - 1]: the line when value - 1 is an index of the array,
\* undefined (found = FALSE) otherwise
lineAtNumber(fileLines, x) ==
  IF ~x.nan /\ x.n % x.d = 0 /\ (x.n \div x.d) \in 1..Len(fileLines)
  THEN [found |-> TRUE, text |-> fileLines[x.n \div x.d]]
  ELSE [found |-> FALSE, text |-> << >>]

lineAt(fileLines, value) == lineAtNumber(fileLines, ToNumber(value))


-----------------------------------------------------------------------------
(* findActualLineFromContent: the strategy ladder.  Each step is an        *)
(* operator of its own; the function composes them in the code's order.    *)

\* what a call returns or raises: kind is "value" (value holds it), "null"
\* or "throw" (a TypeError)
Returned(value) == [kind |-> "value", value |-> value]

ReturnedNull == [kind |-> "null", value |-> JUndef]

Thrown == [kind |-> "throw", value |-> JUndef]

\* the first element of seq for which Hit(element).found, with that hit
firstHit(seq, Hit(_)) ==
  LET hits == {k \in 1..Len(seq) : Hit(seq[k]).found}
  IN  IF hits = {} THEN [found |-> FALSE, snippet |-> << >>, match |-> NoMatch]
      ELSE [found |-> TRUE, snippet |-> seq[SetMin(hits)],
            match |-> Hit(seq[SetMin(hits)])]

\* the exact step when only the first snippet is tried
exactStepFirstSnippet(codeSnippets, fileLines) ==
  LET Hit(snippet) == findExactCodeMatch(snippet, fileLines)
  IN  firstHit(SubSeq(codeSnippets, 1, Min2(1, Len(codeSnippets))), Hit)

\* the exact step when every snippet is consulted and the match on the lowest
\* line wins
exactStepEarliestLine(codeSnippets, fileLines) ==
  LET Hit(snippet) == findExactCodeMatch(snippet, fileLines)
      hits == {k \in 1..Len(codeSnippets) : Hit(codeSnippets[k]).found}
      best == CHOOSE k \in hits :
                \A j \in hits : Hit(codeSnippets[k]).lineNumber <= Hit(codeSnippets[j]).lineNumber
  IN  IF hits = {} THEN [found |-> FALSE, snippet |-> << >>, match |-> NoMatch]
      ELSE [found |-> TRUE, snippet |-> codeSnippets[best], match |-> Hit(codeSnippets[best])]

\* lines 106-119: the first snippet, in pool order, that matches some line exactly
exactStep(codeSnippets, fileLines) ==
  LET Hit(snippet) == findExactCodeMatch(snippet, fileLines)
  IN  firstHit(codeSnippets, Hit)

\* a match when its confidence is above the threshold
accepted(match, threshold) ==
  IF match.found /\ RatLt(threshold, match.confidence) THEN match ELSE NoMatch

\* the fuzzy step without its early return: the last snippet, in pool order,
\* whose best fuzzy match has a confidence above 0.8
fuzzyStepLastSnippet(codeSnippets, fileLines) ==
  LET Hit(snippet) == accepted(findFuzzyCodeMatch(snippet, fileLines), Rat(8, 10))
      hits == {k \in 1..Len(codeSnippets) : Hit(codeSnippets[k]).found}
  IN  IF hits = {} THEN [found |-> FALSE, snippet |-> << >>, match |-> NoMatch]
      ELSE [found |-> TRUE, snippet |-> codeSnippets[SetMax(hits)],
            match |-> Hit(codeSnippets[SetMax(hits)])]

\* lines 121-134: the first snippet, in pool order, whose best fuzzy match has a
\* confidence above 0.8
fuzzyStep(codeSnippets, fileLines) ==
  LET Hit(snippet) == accepted(findFuzzyCodeMatch(snippet, fileLines), Rat(8, 10))
  IN  firstHit(codeSnippets, Hit)

\* line 137: the claimed line is truthy and between 1 and maxLineNumber
inRange(line, maxLineNumber) ==
  /\ Truthy(line)
  /\ NumGe(ToNumber(line), 1)
  /\ NumLe(ToNumber(line), maxLineNumber)

\* line 139: the text at the claimed line is there and not blank
hasContent(targetLine) ==
  /\ targetLine.found
  /\ targetLine.text # << >>
  /\ trim(targetLine.text) # << >>

\* the original-line step without the test of the text at the claimed line
originalLineStepAnyText(comment, fileLines) ==
  inRange(GetProp(comment, <<"l","i","n","e">>), Len(fileLines))

\* lines 137-139: the claimed line is in range and the text there is not blank
originalLineStep(comment, fileLines) ==
  /\ inRange(GetProp(comment, <<"l","i","n","e">>), Len(fileLines))
  /\ hasContent(lineAt(fileLines, GetProp(comment, <<"l","i","n","e">>)))

\* the keyword step with a confidence of 0.6 accepted as well
keywordStepAtLeast(commentText, fileLines) ==
  IF /\ findKeywordMatch(commentText, fileLines).found
     /\ ~RatLt(findKeywordMatch(commentText, fileLines).confidence, Rat(6, 10))
  THEN findKeywordMatch(commentText, fileLines)
  ELSE NoMatch

\* lines 151-152: the keyword match, when its confidence is above 0.6
keywordStep(commentText, fileLines) ==
  accepted(findKeywordMatch(commentText, fileLines), Rat(6, 10))

ExactMatch == <<"e","x","a","c","t","_","m","a","t","c","h">>

FuzzyMatch == <<"f","u","z","z","y","_","m","a","t","c","h">>

KeywordMatch == <<"k","e","y","w","o","r","d","_","m","a","t","c","h">>

OriginalLineKept == <<"o","r","i","g","i","n","a","l","_","l","i","n","e","_","k","e","p","t">>

\* lines 110-117, 125-132 and 153-159: the comment with its line replaced and
\* the provenance of the correction, in the order the object literal lists it
corrected(comment, lineNumber, method) ==
  SetProp(SetProp(SetProp(comment, <<"l","i","n","e">>, JInt(lineNumber)),
                  <<"_","o","r","i","g","i","n","a","l","L","i","n","e">>, GetProp(comment, <<"l","i","n","e">>)),
          <<"_","c","o","r","r","e","c","t","i","o","n","M","e","t","h","o","d">>, JStr(method))

withMatchedCode(correctedComment, snippet) ==
  SetProp(correctedComment, <<"_","m","a","t","c","h","e","d","C","o","d","e">>, JStr(snippet))

withConfidence(correctedComment, confidence) ==
  SetProp(correctedComment, <<"_","c","o","n","f","i","d","e","n","c","e">>, JNum(confidence[1], confidence[2]))

\* lines 110-117
exactResult(comment, exactMatch) ==
  Returned(withConfidence(
             withMatchedCode(corrected(comment, exactMatch.match.lineNumber, ExactMatch),
                             exactMatch.snippet),
             One))

\* lines 125-132
fuzzyResult(comment, fuzzyMatch) ==
  Returned(withConfidence(
             withMatchedCode(corrected(comment, fuzzyMatch.match.lineNumber, FuzzyMatch),
                             fuzzyMatch.snippet),
             fuzzyMatch.match.confidence))

\* lines 153-162
keywordResult(comment, keywordMatch) ==
  IF keywordMatch.found
  THEN Returned(withConfidence(corrected(comment, keywordMatch.lineNumber, KeywordMatch),
                               keywordMatch.confidence))
  ELSE ReturnedNull

\* the comment as claimed, flagged as uncertain
originalKept(comment) ==
  SetProp(SetProp(SetProp(comment, <<"_","c","o","r","r","e","c","t","i","o","n","M","e","t","h","o","d">>, JStr(OriginalLineKept)),
                  <<"_","c","o","n","f","i","d","e","n","c","e">>, JNum(1, 2)),
          <<"_","l","i","n","e","W","a","r","n","i","n","g">>, JBool(TRUE))

\* lines 136-162: after the exact and the fuzzy step have failed
afterFuzzy(comment, fileLines) ==
  IF originalLineStep(comment, fileLines) THEN Returned(originalKept(comment))
  ELSE keywordResult(comment, keywordStep(GetProp(comment, <<"c","o","m","m","e","n","t">>).s, fileLines))

\* lines 121-162: after the exact step has failed
afterExactOf(comment, fileLines, fuzzyMatch) ==
  IF fuzzyMatch.found THEN fuzzyResult(comment, fuzzyMatch)
  ELSE afterFuzzy(comment, fileLines)

afterExact(comment, fileLines, codeSnippets) ==
  afterExactOf(comment, fileLines, fuzzyStep(codeSnippets, fileLines))

\* lines 106-162
laddered(comment, fileLines, codeSnippets, exactMatch) ==
  IF exactMatch.found THEN exactResult(comment, exactMatch)
  ELSE afterExact(comment, fileLines, codeSnippets)

ladder(comment, fileLines, codeSnippets) ==
  laddered(comment, fileLines, codeSnippets, exactStep(codeSnippets, fileLines))

\* a comment whose text is no string has no match method: the call raises
findActualLineFromContent(comment, fileContent) ==
  IF GetProp(comment, <<"c","o","m","m","e","n","t">>).t # "string" THEN Thrown
  ELSE ladder(comment, split(fileContent, NL),
              extractCodeSnippetsFromComment(GetProp(comment, <<"c","o","m","m","e","n","t">>).s))


-----------------------------------------------------------------------------
(* parseFileContents of services/code-snippet-extractor.js: the mapping    *)
(* from path to file text that a context blob holds.                       *)

\* where ^ and $ of a multi-line regular expression match, and what . skips
LineTerminators == {NL, "\r"}

\* /^--- (.+?) ---$/m at position i: the end of the header line, or -1.  The
\* name cannot hold a line terminator and the closing dashes must end the
\* line, so the header is the whole line and the lazy name its middle.
headerEnd(s, i) ==
  LET lineEnd == runEnd(s, i, charSet(s) \ LineTerminators)
  IN  IF /\ (i = 0 \/ charAt(s, i - 1) \in LineTerminators)
         /\ occursAt(s, <<"-","-","-"," ">>, i)
         /\ lineEnd - i >= 9
         /\ occursAt(s, <<" ","-","-","-">>, lineEnd - 4)
      THEN lineEnd ELSE -1

\* a Map in insertion order; set replaces the value of a key it already holds
EmptyMap == [keys |-> << >>, vals |-> << >>]

MapHas(m, key) == \E k \in 1..Len(m.keys) : m.keys[k] = key

MapGet(m, key) == m.vals[CHOOSE k \in 1..Len(m.keys) : m.keys[k] = key]

MapSet(m, key, val) ==
  IF MapHas(m, key)
  THEN [keys |-> m.keys,
        vals |-> [k \in 1..Len(m.vals) |-> IF m.keys[k] = key THEN val ELSE m.vals[k]]]
  ELSE [keys |-> Append(m.keys, key), vals |-> Append(m.vals, val)]

\* content.replace(/^\n+/, '').replace(/\n+$/, '')
stripBlankEnds(content) ==
  LET keep == {i \in 1..Len(content) : content[i] # NL}
  IN  IF keep = {} THEN << >> ELSE SubSeq(content, SetMin(keep), SetMax(keep))

parseFileContents(fileContext) ==
  LET IsHeader(i) == headerEnd(fileContext, i - 1) > i - 1
      starts == positionsWhere(Len(fileContext), IsHeader)
      n == Len(starts)
      \* the k-th header's start; the end of the text after the last one
      start(k) == IF k = n + 1 THEN Len(fileContext) ELSE starts[k] - 1
      fileName(k) == slice(fileContext, start(k) + 4, headerEnd(fileContext, start(k)) - 4)
      fileContent(k) == slice(fileContext, headerEnd(fileContext, start(k)), start(k + 1))
      F[k \in 0..n] ==
        IF k = 0 THEN EmptyMap
        ELSE IF fileContent(k) # << >> /\ stripBlankEnds(fileContent(k)) # << >>
        THEN MapSet(F[k - 1], fileName(k), stripBlankEnds(fileContent(k)))
        ELSE F[k - 1]
  IN  IF fileContext = << >> THEN EmptyMap ELSE F[n]

-----------------------------------------------------------------------------
(* validateAndFixLineNumbers *)

\* what the loop has done after the first k elements of the comments: the
\* validated comments so far, or thrown
\* lines 80-84: a corrected comment is pushed, null is skipped, a raised
\* TypeError leaves the function
pushed(validated, correctedComment) ==
  IF correctedComment.kind = "throw"
  THEN [threw |-> TRUE, validatedComments |-> << >>]
  ELSE IF correctedComment.kind = "value"
  THEN [threw |-> FALSE,
        validatedComments |-> Append(validated.validatedComments,
                                     correctedComment.value)]
  ELSE validated

\* lines 70-84: the file of the comment is looked up; the comment is skipped
\* when the mapping has no text for it
located(validated, comment, file, fileContents) ==
  IF file.t # "string" \/ ~MapHas(fileContents, file.s) THEN validated
  ELSE pushed(validated,
              findActualLineFromContent(comment, MapGet(fileContents, file.s)))

\* one round of the loop; reading the file of null or undefined raises
visited(validated, comment, fileContents) ==
  IF validated.threw THEN validated
  ELSE IF IsNullish(comment) THEN [threw |-> TRUE, validatedComments |-> << >>]
  ELSE located(validated, comment, GetProp(comment, <<"f","i","l","e">>), fileContents)

validatedPrefix(comments, fileContents) ==
  LET F[i \in 0..Len(comments)] ==
        IF i = 0 THEN [threw |-> FALSE, validatedComments |-> << >>]
        ELSE visited(F[i - 1], comments[i], fileContents)
  IN  F[Len(comments)]

\* the elements a for-of loop visits: those of an array, the characters of a
\* string
iterated(v) ==
  IF v.t = "string" THEN [i \in 1..Len(v.s) |-> JStr(<<v.s[i]>>)] ELSE v.kids

\* lines 87-90
reconciled(parsedReview, done) ==
  IF done.threw THEN Thrown
  ELSE Returned(SetProp(parsedReview, <<"c","o","m","m","e","n","t","s">>, JArr(done.validatedComments)))

\* lines 66-90; a truthy value that is not iterable raises
validatedOf(parsedReview, comments, fileContext) ==
  IF comments.t \notin {"array", "string"} THEN Thrown
  ELSE reconciled(parsedReview,
                  validatedPrefix(iterated(comments), parseFileContents(fileContext)))

validateAndFixLineNumbers(parsedReview, fileContext) ==
  IF \/ fileContext = << >>
     \/ IsNullish(parsedReview)
     \/ ~Truthy(GetProp(parsedReview, <<"c","o","m","m","e","n","t","s">>))
  THEN Returned(parsedReview)
  ELSE validatedOf(parsedReview, GetProp(parsedReview, <<"c","o","m","m","e","n","t","s">>), fileContext)


-----------------------------------------------------------------------------
(* JSON.parse on a sequence of characters: a recursive-descent parser of   *)
(* the JSON grammar.  A parse step yields [ok, val, pos]: whether a value  *)
(* was read, the value, and the 0-based position after it.  \u escapes are *)
(* not read (no text of the model holds one).                              *)

JsonWhiteSpace == {" ", NL, "\t", "\r"}

\* characters a string escape stands for that have no literal of their own
Backspace == "BACKSPACE"

FormFeed == "FORMFEED"

ControlChars == {NL, "\t", "\r", Backspace, FormFeed}

ParseFail == [ok |-> FALSE, val |-> JUndef, pos |-> 0]

ParseOk(val, pos) == [ok |-> TRUE, val |-> val, pos |-> pos]

skipWs(s, i) == runEnd(s, i, JsonWhiteSpace)

unescape(c) ==
  CASE c = "n" -> NL
    [] c = "t" -> "\t"
    [] c = "r" -> "\r"
    [] c = "b" -> Backspace
    [] c = "f" -> FormFeed
    [] OTHER -> c

\* the number of backslashes that immediately precede 1-based position k
backslashesBefore(s, k) ==
  k - 1 - SetMax({0} \cup {j \in 1..(k - 1) : s[j] # BS})

\* the backslash at 1-based position k starts an escape
startsEscape(s, k) == s[k] = BS /\ backslashesBefore(s, k) % 2 = 0

\* the string that opens with the quote at position i: it closes at the first
\* quote that no backslash escapes
parseString(s, i) ==
  LET closers == {j \in (i + 2)..Len(s) :
                    s[j] = DQ /\ backslashesBefore(SubSeq(s, i + 2, j), j - i - 1) % 2 = 0}
      raw == SubSeq(s, i + 2, SetMin(closers) - 1)
      NotEscape(k) == ~startsEscape(raw, k)
      kept == positionsWhere(Len(raw), NotEscape)
      content == [m \in 1..Len(kept) |->
                    IF kept[m] > 1 /\ startsEscape(raw, kept[m] - 1)
                    THEN unescape(raw[kept[m]]) ELSE raw[kept[m]]]
  IN  IF charAt(s, i) # DQ \/ closers = {} THEN ParseFail
      ELSE IF \E k \in 1..Len(raw) :
                \/ raw[k] \in ControlChars
                \/ /\ startsEscape(raw, k)
                   /\ raw[k + 1] \notin {DQ, BS, "/", "b", "f", "n", "r", "t"}
      THEN ParseFail
      ELSE ParseOk(JStr(content), SetMin(closers))

\* -? (0 | [1-9][0-9]*) (. [0-9]+)? ([eE] [+-]? [0-9]+)?
\* read part by part: the sign, the whole digits from i1 to i2, the fraction
\* digits up to i3, the exponent digits from i4 to i5
jsonNumber(sign, whole, frac, negExp, exp, end) ==
  LET mantissa == DigitsValue(whole) * Pow10(Len(frac)) + DigitsValue(frac)
  IN  IF negExp
      THEN ParseOk(JNum(sign * mantissa, Pow10(Len(frac)) * Pow10(exp)), end)
      ELSE ParseOk(JNum(sign * mantissa * Pow10(exp), Pow10(Len(frac))), end)

exponentDigits(s, sign, whole, frac, negExp, i4, i5) ==
  IF i5 = i4 THEN ParseFail
  ELSE jsonNumber(sign, whole, frac, negExp, DigitsValue(slice(s, i4, i5)), i5)

exponentPart(s, sign, whole, frac, i3) ==
  IF charAt(s, i3) \notin {"e", "E"}
  THEN jsonNumber(sign, whole, frac, FALSE, 0, i3)
  ELSE IF charAt(s, i3 + 1) \in {"+", "-"}
  THEN exponentDigits(s, sign, whole, frac, charAt(s, i3 + 1) = "-", i3 + 2,
                      runEnd(s, i3 + 2, Digits))
  ELSE exponentDigits(s, sign, whole, frac, FALSE, i3 + 1, runEnd(s, i3 + 1, Digits))

fractionDigits(s, sign, whole, i2, i3) ==
  IF i3 = i2 + 1 THEN ParseFail
  ELSE exponentPart(s, sign, whole, slice(s, i2 + 1, i3), i3)

fractionPart(s, sign, i1, i2) ==
  IF i2 = i1 THEN ParseFail
  ELSE IF charAt(s, i2) = "."
  THEN fractionDigits(s, sign, slice(s, i1, i2), i2, runEnd(s, i2 + 1, Digits))
  ELSE exponentPart(s, sign, slice(s, i1, i2), << >>, i2)

wholePart(s, sign, i1) ==
  fractionPart(s, sign, i1,
               IF charAt(s, i1) = "0" THEN i1 + 1 ELSE runEnd(s, i1, Digits))

parseNumber(s, i) ==
  IF charAt(s, i) = "-" THEN wholePart(s, -1, i + 1) ELSE wholePart(s, 1, i)

RECURSIVE parseValue(_, _), valueAt(_, _), parseMembers(_, _, _), parseElements(_, _, _)
RECURSIVE memberValue(_, _, _), memberEnd(_, _, _), elementEnd(_, _, _)

\* the value that starts at position i
valueAt(s, i) ==
  CASE charAt(s, i) = "{" ->
         IF charAt(s, skipWs(s, i + 1)) = "}"
         THEN ParseOk(JObj(<< >>, << >>), skipWs(s, i + 1) + 1)
         ELSE parseMembers(s, i + 1, JObj(<< >>, << >>))
    [] charAt(s, i) = "[" ->
         IF charAt(s, skipWs(s, i + 1)) = "]"
         THEN ParseOk(JArr(<< >>), skipWs(s, i + 1) + 1)
         ELSE parseElements(s, i + 1, << >>)
    [] charAt(s, i) = DQ -> parseString(s, i)
    [] charAt(s, i) = "-" \/ charAt(s, i) \in Digits -> parseNumber(s, i)
    [] occursAt(s, <<"t","r","u","e">>, i) -> ParseOk(JBool(TRUE), i + 4)
    [] occursAt(s, <<"f","a","l","s","e">>, i) -> ParseOk(JBool(FALSE), i + 5)
    [] occursAt(s, <<"n","u","l","l">>, i) -> ParseOk(JNull, i + 4)
    [] OTHER -> ParseFail

\* the value that starts at position i, after white space
parseValue(s, i) == valueAt(s, skipWs(s, i))

\* after a member: a comma and the next member, or the closing brace
memberEnd(s, obj, after) ==
  IF charAt(s, after) = "," THEN parseMembers(s, after + 1, obj)
  ELSE IF charAt(s, after) = "}" THEN ParseOk(obj, after + 1)
  ELSE ParseFail

\* after a key: the colon and the value; a repeated key keeps its place and
\* takes the later value
memberValue(s, obj, key) ==
  IF ~key.ok \/ charAt(s, skipWs(s, key.pos)) # ":" THEN ParseFail
  ELSE LET val == parseValue(s, skipWs(s, key.pos) + 1)
       IN  IF ~val.ok THEN ParseFail
           ELSE memberEnd(s, SetProp(obj, key.val.s, val.val), skipWs(s, val.pos))

\* the members of an object from position i on, added to obj
parseMembers(s, i, obj) == memberValue(s, obj, parseString(s, skipWs(s, i)))

\* after an element: a comma and the next element, or the closing bracket
elementEnd(s, kids, after) ==
  IF charAt(s, after) = "," THEN parseElements(s, after + 1, kids)
  ELSE IF charAt(s, after) = "]" THEN ParseOk(JArr(kids), after + 1)
  ELSE ParseFail

\* the elements of an array from position i on, appended to kids
parseElements(s, i, kids) ==
  LET val == parseValue(s, i)
  IN  IF ~val.ok THEN ParseFail
      ELSE elementEnd(s, Append(kids, val.val), skipWs(s, val.pos))

\* the whole text is one value
wholeText(text, r) ==
  IF r.ok /\ skipWs(text, r.pos) = Len(text) THEN r ELSE ParseFail

\* JSON.parse(text): ok is FALSE where JSON.parse raises a SyntaxError
jsonParse(text) == wholeText(text, parseValue(text, 0))


-----------------------------------------------------------------------------
(* parseReviewResponse *)

\* the Error the catch block raises
InvalidJsonResponse(llmChoice) ==
  [kind |-> "error",
   value |-> JStr(<<"I","n","v","a","l","i","d"," ","J","S","O","N"," ","r","e","s","p","o","n","s","e"," ","f","r","o","m"," ">> \o llmChoice \o <<" ","C","L","I",".">>)]

\* array.indexOf(text) and array.lastIndexOf(text): strict equality with a string
arrayIndexOf(kids, text) ==
  LET hits == {k \in 1..Len(kids) : kids[k] = JStr(text)}
  IN  IF hits = {} THEN -1 ELSE SetMin(hits) - 1

arrayLastIndexOf(kids, text) ==
  LET hits == {k \in 1..Len(kids) : kids[k] = JStr(text)}
  IN  IF hits = {} THEN -1 ELSE SetMax(hits) - 1

\* lines 9-14: the text to work on after the Claude envelope has been looked
\* at.  ok is FALSE when JSON.parse raised; value is a string, or whatever
\* truthy value the envelope's result field holds.
unwrappedFrom(wrappedResponse, cleanedReview) ==
  IF ~wrappedResponse.ok THEN [ok |-> FALSE, value |-> JUndef]
  ELSE IF Truthy(GetProp(wrappedResponse.val, <<"r","e","s","u","l","t">>))
  THEN [ok |-> TRUE, value |-> GetProp(wrappedResponse.val, <<"r","e","s","u","l","t">>)]
  ELSE [ok |-> TRUE, value |-> JStr(cleanedReview)]

\* unwrapped with the provider name compared as written: the envelope of a
\* provider spelled "Claude" is left as it is
unwrappedCaseSensitive(cleanedReview, llmChoice) ==
  IF /\ llmChoice = <<"c","l","a","u","d","e">>
     /\ startsWith(cleanedReview, <<"{">>)
     /\ includes(cleanedReview, <<DQ>> \o <<"r","e","s","u","l","t">> \o <<DQ>>)
  THEN unwrappedFrom(jsonParse(cleanedReview), cleanedReview)
  ELSE [ok |-> TRUE, value |-> JStr(cleanedReview)]

unwrapped(cleanedReview, llmChoice) ==
  IF /\ toLowerCase(llmChoice) = <<"c","l","a","u","d","e">>
     /\ startsWith(cleanedReview, <<"{">>)
     /\ includes(cleanedReview, <<DQ>> \o <<"r","e","s","u","l","t">> \o <<DQ>>)
  THEN unwrappedFrom(jsonParse(cleanedReview), cleanedReview)
  ELSE [ok |-> TRUE, value |-> JStr(cleanedReview)]

\* lines 17-30 on a string: the text between the fence markers, else the text
\* from the first opening brace to the last closing brace, else the text itself
isolated(cleanedReview) ==
  LET jsonStart == indexOf(cleanedReview, <<BT, BT, BT, "j", "s", "o", "n">>)
      jsonEnd == lastIndexOf(cleanedReview, <<BT, BT, BT>>)
      firstBrace == indexOf(cleanedReview, <<"{">>)
      lastBrace == lastIndexOf(cleanedReview, <<"}">>)
  IN  IF jsonStart # -1 /\ jsonEnd # -1 /\ jsonEnd > jsonStart
      THEN trim(slice(cleanedReview, jsonStart + 7, jsonEnd))
      ELSE IF firstBrace # -1 /\ lastBrace # -1 /\ lastBrace > firstBrace
      THEN slice(cleanedReview, firstBrace, lastBrace + 1)
      ELSE cleanedReview

\* lines 17-30 on an array (an envelope whose result is an array): indexOf and
\* slice are those of the array; trim is no method of an array (ok = FALSE)
isolatedFromArray(kids) ==
  LET jsonStart == arrayIndexOf(kids, <<BT, BT, BT, "j", "s", "o", "n">>)
      jsonEnd == arrayLastIndexOf(kids, <<BT, BT, BT>>)
      firstBrace == arrayIndexOf(kids, <<"{">>)
      lastBrace == arrayLastIndexOf(kids, <<"}">>)
  IN  IF jsonStart # -1 /\ jsonEnd # -1 /\ jsonEnd > jsonStart
      THEN [ok |-> FALSE, text |-> << >>]
      ELSE IF firstBrace # -1 /\ lastBrace # -1 /\ lastBrace > firstBrace
      THEN [ok |-> TRUE, text |-> JsToString(JArr(slice(kids, firstBrace, lastBrace + 1)))]
      ELSE [ok |-> TRUE, text |-> JsToString(JArr(kids))]

\* lines 32-38: the parsed value, or the Error of the catch block
parsedOrInvalid(parsedReview, llmChoice) ==
  IF ~parsedReview.ok THEN InvalidJsonResponse(llmChoice)
  ELSE Returned(parsedReview.val)

isolatedOrInvalid(fromArray, llmChoice) ==
  IF ~fromArray.ok THEN InvalidJsonResponse(llmChoice)
  ELSE parsedOrInvalid(jsonParse(fromArray.text), llmChoice)

\* lines 16-38: a value that is neither a string nor an array has no indexOf,
\* and the TypeError ends in the catch block like a SyntaxError
cleanedOrInvalid(cleanedReview, llmChoice) ==
  IF ~cleanedReview.ok THEN InvalidJsonResponse(llmChoice)
  ELSE IF cleanedReview.value.t = "string"
  THEN parsedOrInvalid(jsonParse(isolated(cleanedReview.value.s)), llmChoice)
  ELSE IF cleanedReview.value.t = "array"
  THEN isolatedOrInvalid(isolatedFromArray(cleanedReview.value.kids), llmChoice)
  ELSE InvalidJsonResponse(llmChoice)

parseReviewResponse(review, llmChoice) ==
  cleanedOrInvalid(unwrapped(trim(review), llmChoice), llmChoice)


-----------------------------------------------------------------------------
(* The prose fallback of the response extractor: convertOllamaTextToJson   *)
(* and extractCommentFromLine, and the parseReviewResponse that calls them  *)
(* for the provider ollama.                                                 *)

\* a comment object {file, line, comment}
Comment(file, line, text) ==
  JObj(<<<<"f","i","l","e">>, <<"l","i","n","e">>, <<"c","o","m","m","e","n","t">>>>, <<JStr(file), line, JStr(text)>>)

\* [a-zA-Z0-9._-] of the file name pattern
FileNameChars == LowerSet \cup UpperSet \cup Digits \cup {".", "_", "-"}

\* the alternatives of the extension group, in the order the pattern tries them
FileExtensions ==
  <<<<"m","d">>, <<"j","s">>, <<"t","s">>, <<"p","y">>, <<"j","a","v","a">>, <<"c","p","p">>, <<"c">>, <<"h">>, <<"j","s","o","n">>, <<"y","a","m","l">>, <<"y","m","l">>, <<"t","x","t">>>>

\* the alternatives that match at position p of the lower-cased line
extensionsAt(lower, p) ==
  {e \in 1..Len(FileExtensions) : occursAt(lower, FileExtensions[e], p)}

\* the positions of the dots that can end the name part of a match starting
\* at position i: one or more name characters before, an extension after
fileDots(line, lower, i) ==
  {p \in (i + 1)..(runEnd(line, i, FileNameChars) - 1) :
     line[p + 1] = "." /\ extensionsAt(lower, p + 1) # {}}

fileMatchStarts(line, lower) ==
  {i \in 0..(Len(line) - 1) :
     line[i + 1] \in FileNameChars /\ fileDots(line, lower, i) # {}}

\* the match from position i with the dot at p: the first alternative that fits
fileMatchAt(line, lower, i, p) ==
  slice(line, i, p + 1 + Len(FileExtensions[SetMin(extensionsAt(lower, p + 1))]))

\* the name part is greedy: it ends at the last dot that an extension follows
fileMatchFrom(line, lower, i) ==
  fileMatchAt(line, lower, i, SetMax(fileDots(line, lower, i)))

fileMatchIn(line, lower) ==
  IF fileMatchStarts(line, lower) = {} THEN [found |-> FALSE, text |-> << >>]
  ELSE [found |-> TRUE,
        text |-> fileMatchFrom(line, lower, SetMin(fileMatchStarts(line, lower)))]

\* line.match(/([a-zA-Z0-9._-]+\.(md|js|ts|py|java|cpp|c|h|json|yaml|yml|txt))/i)
fileMatch(line) == fileMatchIn(line, toLowerCase(line))

\* the start of the digits of /line\s*(\d+)/i at position i
lineWordDigits(lower, i) == runEnd(lower, i + 4, WhiteSpace)

\* /line\s*(\d+)/i at position i: the end of the match, or -1
lineWordEnd(lower, i) ==
  IF /\ occursAt(lower, <<"l","i","n","e">>, i)
     /\ runEnd(lower, lineWordDigits(lower, i), Digits) > lineWordDigits(lower, i)
  THEN runEnd(lower, lineWordDigits(lower, i), Digits)
  ELSE -1

lineWordStarts(lower) == {i \in 0..(Len(lower) - 1) : lineWordEnd(lower, i) > i}

\* /:(\d+)/: the positions of a colon that a digit follows
colonStarts(line) ==
  {i \in 0..(Len(line) - 2) : line[i + 1] = ":" /\ line[i + 2] \in Digits}

\* Number.parseInt of the digits after "line", else of those after a colon,
\* else 1
lineNumberIn(line, lower) ==
  IF lineWordStarts(lower) # {}
  THEN DigitsValue(slice(lower, lineWordDigits(lower, SetMin(lineWordStarts(lower))),
                         lineWordEnd(lower, SetMin(lineWordStarts(lower)))))
  ELSE IF colonStarts(line) # {}
  THEN DigitsValue(slice(line, SetMin(colonStarts(line)) + 1,
                         runEnd(line, SetMin(colonStarts(line)) + 1, Digits)))
  ELSE 1

\* s.replace(p, '') for a string p: its first occurrence is removed
withoutFirst(s, p) ==
  IF indexOf(s, p) = -1 THEN s
  ELSE slice(s, 0, indexOf(s, p)) \o slice(s, indexOf(s, p) + Len(p), Len(s))

\* the characters of s at the 1-based positions that pass the test
keptWhere(s, Keep(_)) == [k \in 1..Len(positionsWhere(Len(s), Keep)) |->
                            s[positionsWhere(Len(s), Keep)[k]]]

\* s.replaceAll(/line\s*\d+/gi, ''): no two matches overlap
withoutLineWords(s) ==
  LET Keep(j) == \A i \in lineWordStarts(toLowerCase(s)) :
                   ~(i < j /\ j <= lineWordEnd(toLowerCase(s), i))
  IN  keptWhere(s, Keep)

\* [*#-] of the marker pattern
MarkerChars == {"*", "#", "-"}

\* [#*=-] of the heading test
HeadingChars == {"#", "*", "=", "-"}

\* s.replace(/[*#-]+/, ''): the first run of marker characters is removed
withoutFirstMarkers(s) ==
  LET starts == {i \in 0..(Len(s) - 1) : s[i + 1] \in MarkerChars}
  IN  IF starts = {} THEN s
      ELSE slice(s, 0, SetMin(starts))
             \o slice(s, runEnd(s, SetMin(starts), MarkerChars), Len(s))

\* lines 122-126: the line without the file reference, the line references
\* and the first markers
cleanedCommentText(line, fileMatched) ==
  trim(withoutFirstMarkers(withoutLineWords(withoutFirst(line, fileMatched))))

\* lines 130-133: the next line is added unless it is a heading or names a file
withNextLine(commentText, nextLine) ==
  IF /\ nextLine # << >>
     /\ nextLine[1] \notin HeadingChars
     /\ ~includes(nextLine, <<"f","i","l","e">>)
  THEN commentText \o <<" ">> \o nextLine
  ELSE commentText

\* lines 129-134: a short text takes more context from the next line
withContext(commentText, allLines, index) ==
  IF Len(commentText) < 20 /\ index + 1 < Len(allLines)
  THEN withNextLine(commentText, trim(allLines[index + 2]))
  ELSE commentText

\* lines 136-138
orDefaultComment(commentText) ==
  IF Len(commentText) < 10
  THEN <<"R","e","v","i","e","w"," ","c","o","m","m","e","n","t"," ","-"," ","s","e","e"," ","f","u","l","l"," ","r","e","v","i","e","w"," ","f","o","r"," ","d","e","t","a","i","l","s">>
  ELSE commentText

\* lines 115-144 for the file reference found in the line
commentFrom(line, allLines, index, fileMatched) ==
  Comment(fileMatched,
          JInt(lineNumberIn(line, toLowerCase(line))),
          orDefaultComment(withContext(cleanedCommentText(line, fileMatched),
                                       allLines, index)))

extractedWith(line, allLines, index, match) ==
  IF ~match.found THEN [found |-> FALSE, value |-> JNull]
  ELSE [found |-> TRUE, value |-> commentFrom(line, allLines, index, match.text)]

\* the comment a line of prose that refers to a file gives, or null
\* (found = FALSE); index is 0-based as in the code
extractCommentFromLine(line, allLines, index) ==
  extractedWith(line, allLines, index, fileMatch(line))

summaryMarkers == {<<"s","u","m","m","a","r","y">>, <<"o","v","e","r","v","i","e","w">>, <<"a","s","s","e","s","s","m","e","n","t">>, <<"a","n","a","l","y","s","i","s">>}

\* line 39: a section header that names the summary
isSummaryHeader(lowerLine) ==
  /\ \E marker \in summaryMarkers : includes(lowerLine, marker)
  /\ \/ includes(lowerLine, <<"#","#">>)
     \/ includes(lowerLine, <<"*","*">>)
     \/ includes(lowerLine, <<"=">>)

\* lines 44-50
sectionAfter(currentSection, lowerLine) ==
  IF \/ includes(lowerLine, <<"i","s","s","u","e">>)
     \/ includes(lowerLine, <<"p","r","o","b","l","e","m">>)
     \/ includes(lowerLine, <<"c","o","n","c","e","r","n">>)
  THEN "issues"
  ELSE IF \/ includes(lowerLine, <<"s","u","g","g","e","s","t","i","o","n">>)
          \/ includes(lowerLine, <<"r","e","c","o","m","m","e","n","d">>)
          \/ includes(lowerLine, <<"c","o","n","s","i","d","e","r">>)
  THEN "suggestions"
  ELSE IF includes(lowerLine, <<"n","o","t","e">>) \/ includes(lowerLine, <<"o","b","s","e","r","v","a","t","i","o","n">>)
  THEN "notes"
  ELSE currentSection

\* line 58
mentionsFile(line) ==
  \/ includes(line, <<"R","E","A","D","M","E">>)
  \/ includes(line, <<".","m","d">>)
  \/ includes(line, <<"f","i","l","e">>)

\* lines 61-63
withComment(comments, extracted) ==
  IF extracted.found THEN Append(comments, extracted.value) ELSE comments

\* lines 52-64: the line is added to the summary, and a comment is made of it
scanContent(prev, lines, index, line, section) ==
  [summaryText |->
     IF section = "summary" /\ line # << >> /\ line[1] \notin HeadingChars
     THEN prev.summaryText \o line \o <<" ">>
     ELSE prev.summaryText,
   currentSection |-> section,
   isInCodeBlock |-> FALSE,
   comments |->
     IF mentionsFile(line)
     THEN withComment(prev.comments, extractCommentFromLine(line, lines, index))
     ELSE prev.comments]

\* lines 27-64: one round of the loop over the lines
scanLine(prev, lines, index, line) ==
  IF startsWith(line, <<BT, BT, BT>>)
  THEN [prev EXCEPT !.isInCodeBlock = ~prev.isInCodeBlock]
  ELSE IF prev.isInCodeBlock THEN prev
  ELSE IF isSummaryHeader(toLowerCase(line))
  THEN [prev EXCEPT !.currentSection = "summary"]
  ELSE scanContent(prev, lines, index, line,
                   sectionAfter(prev.currentSection, toLowerCase(line)))

\* lines 22-65: what the loop has gathered after all lines
scanned(lines) ==
  LET F[k \in 0..Len(lines)] ==
        IF k = 0
        THEN [summaryText |-> << >>, currentSection |-> "",
              isInCodeBlock |-> FALSE, comments |-> << >>]
        ELSE scanLine(F[k - 1], lines, k - 1, trim(lines[k]))
  IN  F[Len(lines)]

\* line 68 without the default text: the summary may be empty
summaryOrEmpty(summaryText) == trim(summaryText)

\* line 68
summaryOf(summaryText) ==
  IF trim(summaryText) # << >> THEN trim(summaryText)
  ELSE <<"C","o","d","e"," ","r","e","v","i","e","w"," ","c","o","m","p","l","e","t","e","d","."," ","S","e","e"," ","s","p","e","c","i","f","i","c"," ","c","o","m","m","e","n","t","s"," ","f","o","r"," ","d","e","t","a","i","l","s",".">>

MainContentLength == 500

\* lines 73-78: the catch-all comment
generalComment(textReview) ==
  Comment(<<"R","E","A","D","M","E",".","m","d">>, JInt(1),
          <<"G","e","n","e","r","a","l"," ","r","e","v","i","e","w",":"," ">>
            \o trim(slice(textReview, 0, Min2(MainContentLength, Len(textReview))))
            \o <<".",".",".">>)

\* lines 71-79
commentsOrGeneral(comments, textReview) ==
  IF Len(comments) = 0 THEN <<generalComment(textReview)>> ELSE comments

isSuggestionLine(lowerLine) ==
  \/ includes(lowerLine, <<"s","u","g","g","e","s","t">>)
  \/ includes(lowerLine, <<"r","e","c","o","m","m","e","n","d">>)
  \/ includes(lowerLine, <<"c","o","n","s","i","d","e","r">>)
  \/ includes(lowerLine, <<"s","h","o","u","l","d">>)

MaxSuggestions == 3

\* lines 82-89
suggestionsOf(lines) ==
  LET IsSuggestion(line) == isSuggestionLine(toLowerCase(line))
      suggestionLines == SelectSeq(lines, IsSuggestion)
  IN  [k \in 1..Min2(MaxSuggestions, Len(suggestionLines)) |->
         JStr(trim(suggestionLines[k]))]

\* lines 92-98
overallRating(lowerReview) ==
  IF \/ includes(lowerReview, <<"i","s","s","u","e">>)
     \/ includes(lowerReview, <<"p","r","o","b","l","e","m">>)
     \/ includes(lowerReview, <<"e","r","r","o","r">>)
  THEN <<"n","e","e","d","s","_","i","m","p","r","o","v","e","m","e","n","t">>
  ELSE <<"g","o","o","d">>

\* the review object, its properties in the order of lines 10-15
reviewObject(textReview, lines, scan) ==
  JObj(<<<<"s","u","m","m","a","r","y">>, <<"c","o","m","m","e","n","t","s">>, <<"o","v","e","r","a","l","l","_","r","a","t","i","n","g">>, <<"s","u","g","g","e","s","t","i","o","n","s">>>>,
       <<JStr(summaryOf(scan.summaryText)),
         JArr(commentsOrGeneral(scan.comments, textReview)),
         JStr(overallRating(toLowerCase(textReview))),
         JArr(suggestionsOf(lines))>>)

convertedFrom(textReview, lines) == reviewObject(textReview, lines, scanned(lines))

\* line 18: the lines that are not blank
nonBlankLinesOf(textReview) ==
  LET NotBlank(line) == trim(line) # << >>
  IN  SelectSeq(split(textReview, NL), NotBlank)

convertOllamaTextToJson(textReview) ==
  convertedFrom(textReview, nonBlankLinesOf(textReview))

isOllama(llmChoice) == toLowerCase(llmChoice) = <<"o","l","l","a","m","a">>

\* parseReviewResponse with the special handling of Ollama (lines 160-164):
\* the trimmed text is converted; every other provider is handled as before
parseReviewResponseWithOllama(review, llmChoice) ==
  IF isOllama(llmChoice)
  THEN Returned(convertOllamaTextToJson(trim(review)))
  ELSE parseReviewResponse(review, llmChoice)

-----------------------------------------------------------------------------
(* Regular expressions of services/code-snippet-extractor.js: a pattern is  *)
(* a tree, and a match is followed from a set of positions to the set of     *)
(* positions where it can end.                                               *)

RegExp(k, cs, parts) == [k |-> k, cs |-> cs, parts |-> parts]

\* one character of a class, as [;}] or \w
OneOf(cs) == RegExp("one", cs, << >>)

\* . : any character but a line terminator
Dot == RegExp("dot", {}, << >>)

\* ^ and $ without the m flag, and \b
Bol == RegExp("bol", {}, << >>)

Eol == RegExp("eol", {}, << >>)

WordB == RegExp("wordb", {}, << >>)

Concat(parts) == RegExp("seq", {}, parts)

Alt(parts) == RegExp("alt", {}, parts)

Star(r) == RegExp("star", {}, <<r>>)

Plus(r) == RegExp("plus", {}, <<r>>)

Opt(r) == RegExp("opt", {}, <<r>>)

\* the characters of a text, one after the other
Chars(text) == Concat([k \in 1..Len(text) |-> OneOf({text[k]})])

\* \s* \s+ \w+ \w*
Spaces0 == Star(OneOf(WhiteSpace))

Spaces1 == Plus(OneOf(WhiteSpace))

Word1 == Plus(OneOf(WordChars))

Word0 == Star(OneOf(WordChars))

\* .*
Anything == Star(Dot)

RECURSIVE ends(_, _, _)

\* the positions reached by zero or more repetitions of r from the positions P
RECURSIVE repeated(_, _, _)

repeated(r, s, P) ==
  IF ends(r, s, P) \subseteq P THEN P
  ELSE repeated(r, s, P \cup ends(r, s, P))

\* the positions (0-based, between characters) where a match of re that
\* starts at a position of P can end
ends(re, s, P) ==
  IF P = {} THEN {}
  ELSE IF re.k = "one"
  THEN {p + 1 : p \in {q \in P : q < Len(s) /\ s[q + 1] \in re.cs}}
  ELSE IF re.k = "dot"
  THEN {p + 1 : p \in {q \in P : q < Len(s) /\ s[q + 1] \notin LineTerminators}}
  ELSE IF re.k = "bol" THEN P \cap {0}
  ELSE IF re.k = "eol" THEN P \cap {Len(s)}
  ELSE IF re.k = "wordb" THEN {p \in P : wordBoundary(s, p)}
  ELSE IF re.k = "seq"
  THEN LET F[k \in 0..Len(re.parts)] ==
             IF k = 0 THEN P ELSE ends(re.parts[k], s, F[k - 1])
       IN  F[Len(re.parts)]
  ELSE IF re.k = "alt"
  THEN UNION {ends(re.parts[k], s, P) : k \in 1..Len(re.parts)}
  ELSE IF re.k = "star" THEN repeated(re.parts[1], s, P)
  ELSE IF re.k = "plus" THEN repeated(re.parts[1], s, ends(re.parts[1], s, P))
  ELSE P \cup ends(re.parts[1], s, P)

\* regex.test(s)
test(re, s) == ends(re, s, 0..Len(s)) # {}

\* regex.test(s) of a pattern with the i flag, written in lower case
testIgnoreCase(re, s) == test(re, toLowerCase(s))

\* the start of the leftmost match of re in s; -1 without a match
matchStart(re, s) ==
  LET starts == {i \in 0..Len(s) : ends(re, s, {i}) # {}}
  IN  IF starts = {} THEN -1 ELSE SetMin(starts)

-----------------------------------------------------------------------------
(* extractCodeSnippet of services/code-snippet-extractor.js, with its two   *)
(* caches.  Lines and indexes are 0-based as in the code; lines[i + 1] is    *)
(* the line of index i.                                                      *)

\* one of several words, in the order of the alternation
AnyOf(words) == Alt([k \in 1..Len(words) |-> Chars(words[k])])

\* /^(\/\/|#|\*|\/\*|\*\/|<!--)/
CommentStart == Concat(<<Bol, AnyOf(<<<<"/","/">>, <<"#">>, <<"*">>, <<"/","*">>, <<"*","/">>, <<"<","!","-","-">>>>)>>)

\* /^\s*\*\s*(@\w+|$)/
DocBlockLine ==
  Concat(<<Bol, Spaces0, Chars(<<"*">>), Spaces0, Alt(<<Concat(<<Chars(<<"@">>), Word1>>), Eol>>)>>)

\* /^[\s})\];]*$/
ClosingOnly == Concat(<<Bol, Star(OneOf(WhiteSpace \cup {"}", ")", "]", ";"})), Eol>>)

\* /^[\s{(,]*$/
OpeningOnly == Concat(<<Bol, Star(OneOf(WhiteSpace \cup {"{", "(", ","})), Eol>>)

\* whether a line holds code: not blank, not a comment, not only brackets
isSignificantCode(line) ==
  /\ line # << >>
  /\ trim(line) # << >>
  /\ ~test(CommentStart, trim(line))
  /\ ~test(DocBlockLine, line)
  /\ ~test(ClosingOnly, trim(line))
  /\ ~test(OpeningOnly, trim(line))

\* getFileExtension: the text after the last dot, in lower case
getFileExtension(filePath) ==
  IF lastIndexOf(filePath, <<".">>) = -1 \/ lastIndexOf(filePath, <<".">>) = Len(filePath) - 1
  THEN << >>
  ELSE toLowerCase(slice(filePath, Max2(0, lastIndexOf(filePath, <<".">>) + 1), Len(filePath)))

\* languageMap of getLanguageFromExtension: extension, language
languageMap ==
  << <<<<"j","s">>, <<"j","a","v","a","s","c","r","i","p","t">>>>, <<<<"j","s","x">>, <<"j","a","v","a","s","c","r","i","p","t">>>>, <<<<"t","s">>, <<"t","y","p","e","s","c","r","i","p","t">>>>,
     <<<<"t","s","x">>, <<"t","y","p","e","s","c","r","i","p","t">>>>, <<<<"p","y">>, <<"p","y","t","h","o","n">>>>, <<<<"r","b">>, <<"r","u","b","y">>>>,
     <<<<"p","h","p">>, <<"p","h","p">>>>, <<<<"j","a","v","a">>, <<"j","a","v","a">>>>, <<<<"c">>, <<"c">>>>, <<<<"c","p","p">>, <<"c","p","p">>>>,
     <<<<"c","c">>, <<"c","p","p">>>>, <<<<"c","x","x">>, <<"c","p","p">>>>, <<<<"h">>, <<"c">>>>, <<<<"h","p","p">>, <<"c","p","p">>>>,
     <<<<"c","s">>, <<"c","s","h","a","r","p">>>>, <<<<"g","o">>, <<"g","o">>>>, <<<<"r","s">>, <<"r","u","s","t">>>>, <<<<"s","w","i","f","t">>, <<"s","w","i","f","t">>>>,
     <<<<"k","t">>, <<"k","o","t","l","i","n">>>>, <<<<"s","c","a","l","a">>, <<"s","c","a","l","a">>>>, <<<<"s","h">>, <<"b","a","s","h">>>>, <<<<"b","a","s","h">>, <<"b","a","s","h">>>>,
     <<<<"z","s","h">>, <<"b","a","s","h">>>>, <<<<"f","i","s","h">>, <<"b","a","s","h">>>>, <<<<"p","s","1">>, <<"p","o","w","e","r","s","h","e","l","l">>>>, <<<<"s","q","l">>, <<"s","q","l">>>>,
     <<<<"h","t","m","l">>, <<"h","t","m","l">>>>, <<<<"h","t","m">>, <<"h","t","m","l">>>>, <<<<"x","m","l">>, <<"x","m","l">>>>, <<<<"c","s","s">>, <<"c","s","s">>>>,
     <<<<"s","c","s","s">>, <<"s","c","s","s">>>>, <<<<"s","a","s","s">>, <<"s","a","s","s">>>>, <<<<"l","e","s","s">>, <<"l","e","s","s">>>>, <<<<"j","s","o","n">>, <<"j","s","o","n">>>>,
     <<<<"y","a","m","l">>, <<"y","a","m","l">>>>, <<<<"y","m","l">>, <<"y","a","m","l">>>>, <<<<"t","o","m","l">>, <<"t","o","m","l">>>>, <<<<"i","n","i">>, <<"i","n","i">>>>,
     <<<<"c","o","n","f">>, <<"i","n","i">>>>, <<<<"c","o","n","f","i","g">>, <<"i","n","i">>>>, <<<<"m","d">>, <<"m","a","r","k","d","o","w","n">>>>,
     <<<<"m","a","r","k","d","o","w","n">>, <<"m","a","r","k","d","o","w","n">>>>, <<<<"t","x","t">>, <<"t","e","x","t">>>> >>

getLanguageFromExtension(extension) ==
  IF \E k \in 1..Len(languageMap) : languageMap[k][1] = extension
  THEN languageMap[CHOOSE k \in 1..Len(languageMap) : languageMap[k][1] = extension][2]
  ELSE <<"t","e","x","t">>

\* the indicators of detectLanguageFromSyntax: pattern, language, weight
Indicator(pattern, language, weight) ==
  [pattern |-> pattern, language |-> language, weight |-> weight]

indicators ==
  << \* /\$[a-zA-Z_][\w]*/
     Indicator(Concat(<<Chars(<<"$">>), OneOf(LowerSet \cup UpperSet \cup {"_"}), Word0>>),
               <<"p","h","p">>, 3),
     \* /def\s+\w+\s*\(/
     Indicator(Concat(<<Chars(<<"d","e","f">>), Spaces1, Word1, Spaces0, Chars(<<"(">>)>>),
               <<"p","y","t","h","o","n">>, 4),
     \* /import\s+\w+|from\s+\w+\s+import/
     Indicator(Alt(<<Concat(<<Chars(<<"i","m","p","o","r","t">>), Spaces1, Word1>>),
                     Concat(<<Chars(<<"f","r","o","m">>), Spaces1, Word1, Spaces1, Chars(<<"i","m","p","o","r","t">>)>>)>>),
               <<"p","y","t","h","o","n">>, 3),
     \* /function\s+\w+\s*\(|const\s+\w+\s*=|let\s+\w+\s*=/
     Indicator(Alt(<<Concat(<<Chars(<<"f","u","n","c","t","i","o","n">>), Spaces1, Word1, Spaces0, Chars(<<"(">>)>>),
                     Concat(<<Chars(<<"c","o","n","s","t">>), Spaces1, Word1, Spaces0, Chars(<<"=">>)>>),
                     Concat(<<Chars(<<"l","e","t">>), Spaces1, Word1, Spaces0, Chars(<<"=">>)>>)>>),
               <<"j","a","v","a","s","c","r","i","p","t">>, 3),
     \* /class\s+\w+\s*<|def\s+\w+|end\b/
     Indicator(Alt(<<Concat(<<Chars(<<"c","l","a","s","s">>), Spaces1, Word1, Spaces0, Chars(<<"<">>)>>),
                     Concat(<<Chars(<<"d","e","f">>), Spaces1, Word1>>),
                     Concat(<<Chars(<<"e","n","d">>), WordB>>)>>),
               <<"r","u","b","y">>, 4),
     \* /public\s+class|private\s+\w+|import\s+java/
     Indicator(Alt(<<Concat(<<Chars(<<"p","u","b","l","i","c">>), Spaces1, Chars(<<"c","l","a","s","s">>)>>),
                     Concat(<<Chars(<<"p","r","i","v","a","t","e">>), Spaces1, Word1>>),
                     Concat(<<Chars(<<"i","m","p","o","r","t">>), Spaces1, Chars(<<"j","a","v","a">>)>>)>>),
               <<"j","a","v","a">>, 4),
     \* /fn\s+\w+|let\s+mut|use\s+std::/
     Indicator(Alt(<<Concat(<<Chars(<<"f","n">>), Spaces1, Word1>>),
                     Concat(<<Chars(<<"l","e","t">>), Spaces1, Chars(<<"m","u","t">>)>>),
                     Concat(<<Chars(<<"u","s","e">>), Spaces1, Chars(<<"s","t","d",":",":">>)>>)>>),
               <<"r","u","s","t">>, 4),
     \* /func\s+\w+|package\s+\w+|import\s+"/
     Indicator(Alt(<<Concat(<<Chars(<<"f","u","n","c">>), Spaces1, Word1>>),
                     Concat(<<Chars(<<"p","a","c","k","a","g","e">>), Spaces1, Word1>>),
                     Concat(<<Chars(<<"i","m","p","o","r","t">>), Spaces1, Chars(<<DQ>>)>>)>>),
               <<"g","o">>, 4) >>

\* the languages of the indicators in the order their scores are first set
indicatedLanguages == uniqueInOrder([k \in 1..Len(indicators) |-> indicators[k].language])

MaxSampleLines == 50

\* (sampleLines.match(pattern) || []).length of a pattern without groups
\* and without the g flag: one for a match, none without
matchesOf(pattern, sampleLines) == IF test(pattern, sampleLines) THEN 1 ELSE 0

\* the sum of matches times weight over the indicators of a language
scoreOfLanguage(language, sampleLines) ==
  LET F[k \in 0..Len(indicators)] ==
        IF k = 0 THEN 0
        ELSE IF indicators[k].language = language
        THEN F[k - 1] + matchesOf(indicators[k].pattern, sampleLines) * indicators[k].weight
        ELSE F[k - 1]
  IN  F[Len(indicators)]

\* (a, b) => scores[a] > scores[b] ? a : b, where 0 is 'unknown', which has
\* no score
higherScore(scores, a, b) == IF a # 0 /\ scores[a] > scores[b] THEN a ELSE b

\* the reduce of line 214: a later language replaces the one held unless the
\* one held has the strictly higher score
maxLanguage(scores) ==
  LET F[k \in 0..Len(indicatedLanguages)] ==
        IF k = 0 THEN 0 ELSE higherScore(scores, F[k - 1], k)
  IN  F[Len(indicatedLanguages)]

languageOfScores(scores) ==
  IF scores[maxLanguage(scores)] > 0 THEN indicatedLanguages[maxLanguage(scores)]
  ELSE <<"u","n","k","n","o","w","n">>

detectLanguageFromSyntax(lines) ==
  LET sampleLines == joinLines(SubSeq(lines, 1, Min2(MaxSampleLines, Len(lines))))
  IN  languageOfScores([k \in 1..Len(indicatedLanguages) |->
                          scoreOfLanguage(indicatedLanguages[k], sampleLines)])

\* lines 168-180 of detectLanguageFromContent: the language by the extension of
\* the file name, else by the syntax
detectedLanguage(lines, fileName) ==
  IF /\ fileName # << >>
     /\ getLanguageFromExtension(getFileExtension(fileName)) # <<"t","e","x","t">>
  THEN getLanguageFromExtension(getFileExtension(fileName))
  ELSE detectLanguageFromSyntax(lines)

\* a pattern of findPatternMatch; the confidence is in hundredths
Pattern(regex, ignoreCase, reason, confidence) ==
  [regex |-> regex, ignoreCase |-> ignoreCase, reason |-> reason, confidence |-> confidence]

Quote == OneOf({"'", DQ})

FunctionDefinition == Concat(<<Chars(<<"f","u","n","c","t","i","o","n">>), Spaces1, Word1, Spaces0, Chars(<<"(">>)>>)

ClassDefinition == Concat(<<Chars(<<"c","l","a","s","s">>), Spaces1, Word1>>)

\* /if\s*\(.*\)/
Conditional == Concat(<<Chars(<<"i","f">>), Spaces0, Chars(<<"(">>), Anything, Chars(<<")">>)>>)

phpPatterns ==
  << \* /\$[a-zA-Z_][\w]*\s*=.*['\"].*['\"]/
     Pattern(Concat(<<Chars(<<"$">>), OneOf(LowerSet \cup UpperSet \cup {"_"}), Word0, Spaces0,
                      Chars(<<"=">>), Anything, Quote, Anything, Quote>>),
             FALSE, <<"V","a","r","i","a","b","l","e"," ","a","s","s","i","g","n","m","e","n","t">>, 70),
     Pattern(FunctionDefinition, FALSE, <<"F","u","n","c","t","i","o","n"," ","d","e","f","i","n","i","t","i","o","n">>, 80),
     Pattern(ClassDefinition, FALSE, <<"C","l","a","s","s"," ","d","e","f","i","n","i","t","i","o","n">>, 80),
     \* /if\s*\(.*\$/
     Pattern(Concat(<<Chars(<<"i","f">>), Spaces0, Chars(<<"(">>), Anything, Chars(<<"$">>)>>),
             FALSE, <<"C","o","n","d","i","t","i","o","n","a","l"," ","w","i","t","h"," ","v","a","r","i","a","b","l","e">>, 70),
     \* /\-\>\w+\s*\(/
     Pattern(Concat(<<Chars(<<"-",">">>), Word1, Spaces0, Chars(<<"(">>)>>),
             FALSE, <<"M","e","t","h","o","d"," ","c","a","l","l">>, 70) >>

pythonPatterns ==
  << \* /def\s+\w+\s*\(/
     Pattern(Concat(<<Chars(<<"d","e","f">>), Spaces1, Word1, Spaces0, Chars(<<"(">>)>>),
             FALSE, <<"F","u","n","c","t","i","o","n"," ","d","e","f","i","n","i","t","i","o","n">>, 80),
     \* /class\s+\w+\s*\(?\w*\)?:/
     Pattern(Concat(<<Chars(<<"c","l","a","s","s">>), Spaces1, Word1, Spaces0, Opt(Chars(<<"(">>)), Word0,
                      Opt(Chars(<<")">>)), Chars(<<":">>)>>),
             FALSE, <<"C","l","a","s","s"," ","d","e","f","i","n","i","t","i","o","n">>, 80),
     \* /if\s+.*:/
     Pattern(Concat(<<Chars(<<"i","f">>), Spaces1, Anything, Chars(<<":">>)>>),
             FALSE, <<"C","o","n","d","i","t","i","o","n","a","l"," ","s","t","a","t","e","m","e","n","t">>, 70),
     \* /for\s+\w+\s+in\s+/
     Pattern(Concat(<<Chars(<<"f","o","r">>), Spaces1, Word1, Spaces1, Chars(<<"i","n">>), Spaces1>>),
             FALSE, <<"F","o","r"," ","l","o","o","p">>, 70),
     \* /import\s+\w+|from\s+\w+\s+import/
     Pattern(Alt(<<Concat(<<Chars(<<"i","m","p","o","r","t">>), Spaces1, Word1>>),
                   Concat(<<Chars(<<"f","r","o","m">>), Spaces1, Word1, Spaces1, Chars(<<"i","m","p","o","r","t">>)>>)>>),
             FALSE, <<"I","m","p","o","r","t"," ","s","t","a","t","e","m","e","n","t">>, 60) >>

javascriptPatterns ==
  << \* /function\s+\w+\s*\(|const\s+\w+\s*=\s*\(/
     Pattern(Alt(<<FunctionDefinition,
                   Concat(<<Chars(<<"c","o","n","s","t">>), Spaces1, Word1, Spaces0, Chars(<<"=">>), Spaces0,
                            Chars(<<"(">>)>>)>>),
             FALSE, <<"F","u","n","c","t","i","o","n"," ","d","e","f","i","n","i","t","i","o","n">>, 80),
     Pattern(ClassDefinition, FALSE, <<"C","l","a","s","s"," ","d","e","f","i","n","i","t","i","o","n">>, 80),
     Pattern(Conditional, FALSE, <<"C","o","n","d","i","t","i","o","n","a","l"," ","s","t","a","t","e","m","e","n","t">>, 70),
     \* /\.\w+\s*\(/
     Pattern(Concat(<<Chars(<<".">>), Word1, Spaces0, Chars(<<"(">>)>>),
             FALSE, <<"M","e","t","h","o","d"," ","c","a","l","l">>, 60),
     \* /require\s*\(|import\s+.*from/
     Pattern(Alt(<<Concat(<<Chars(<<"r","e","q","u","i","r","e">>), Spaces0, Chars(<<"(">>)>>),
                   Concat(<<Chars(<<"i","m","p","o","r","t">>), Spaces1, Anything, Chars(<<"f","r","o","m">>)>>)>>),
             FALSE, <<"M","o","d","u","l","e"," ","i","m","p","o","r","t">>, 60) >>

rubyPatterns ==
  << \* /def\s+\w+/
     Pattern(Concat(<<Chars(<<"d","e","f">>), Spaces1, Word1>>), FALSE, <<"M","e","t","h","o","d"," ","d","e","f","i","n","i","t","i","o","n">>, 80),
     Pattern(ClassDefinition, FALSE, <<"C","l","a","s","s"," ","d","e","f","i","n","i","t","i","o","n">>, 80),
     \* /if\s+.*/
     Pattern(Concat(<<Chars(<<"i","f">>), Spaces1, Anything>>),
             FALSE, <<"C","o","n","d","i","t","i","o","n","a","l"," ","s","t","a","t","e","m","e","n","t">>, 70),
     \* /\w+\.each\s+do|\w+\.map\s+do/
     Pattern(Alt(<<Concat(<<Word1, Chars(<<".","e","a","c","h">>), Spaces1, Chars(<<"d","o">>)>>),
                   Concat(<<Word1, Chars(<<".","m","a","p">>), Spaces1, Chars(<<"d","o">>)>>)>>),
             FALSE, <<"I","t","e","r","a","t","o","r"," ","b","l","o","c","k">>, 70),
     \* /require\s+['\"]/
     Pattern(Concat(<<Chars(<<"r","e","q","u","i","r","e">>), Spaces1, Quote>>),
             FALSE, <<"R","e","q","u","i","r","e"," ","s","t","a","t","e","m","e","n","t">>, 60) >>

javaPatterns ==
  << \* /public\s+class\s+\w+|private\s+class\s+\w+/
     Pattern(Concat(<<AnyOf(<<<<"p","u","b","l","i","c">>, <<"p","r","i","v","a","t","e">>>>), Spaces1, Chars(<<"c","l","a","s","s">>), Spaces1,
                      Word1>>),
             FALSE, <<"C","l","a","s","s"," ","d","e","f","i","n","i","t","i","o","n">>, 80),
     \* /public\s+\w+\s+\w+\s*\(|private\s+\w+\s+\w+\s*\(/
     Pattern(Concat(<<AnyOf(<<<<"p","u","b","l","i","c">>, <<"p","r","i","v","a","t","e">>>>), Spaces1, Word1, Spaces1, Word1,
                      Spaces0, Chars(<<"(">>)>>),
             FALSE, <<"M","e","t","h","o","d"," ","d","e","f","i","n","i","t","i","o","n">>, 80),
     Pattern(Conditional, FALSE, <<"C","o","n","d","i","t","i","o","n","a","l"," ","s","t","a","t","e","m","e","n","t">>, 70),
     \* /for\s*\(.*\)/
     Pattern(Concat(<<Chars(<<"f","o","r">>), Spaces0, Chars(<<"(">>), Anything, Chars(<<")">>)>>),
             FALSE, <<"F","o","r"," ","l","o","o","p">>, 70),
     \* /import\s+[\w.]+;/
     Pattern(Concat(<<Chars(<<"i","m","p","o","r","t">>), Spaces1, Plus(OneOf(WordChars \cup {"."})),
                      Chars(<<";">>)>>),
             FALSE, <<"I","m","p","o","r","t"," ","s","t","a","t","e","m","e","n","t">>, 60) >>

\* the patterns of a language; those of JavaScript for any other language
getBasePatterns(language) ==
  IF language = <<"p","h","p">> THEN phpPatterns
  ELSE IF language = <<"p","y","t","h","o","n">> THEN pythonPatterns
  ELSE IF language = <<"r","u","b","y">> THEN rubyPatterns
  ELSE IF language = <<"j","a","v","a">> THEN javaPatterns
  ELSE javascriptPatterns

\* the first group of the leftmost match of /<keyword>\s+(\w+)/i in a line,
\* or the empty text without a match
namedAfter(keyword, line) ==
  LET lower == toLowerCase(line)
      from == matchStart(Concat(<<keyword, Spaces1, OneOf(WordChars)>>), lower)
      nameStart == CHOOSE p \in ends(Concat(<<keyword, Spaces1>>), lower, {from}) :
                     charAt(lower, p) \in WordChars
  IN  IF from = -1 THEN << >>
      ELSE slice(line, nameStart, runEnd(line, nameStart, WordChars))

MaxAnalyzedLines == 100

\* the names that follow a keyword on the first lines that are not blank, each
\* once, in the order found
namesAfter(keyword, lines) ==
  LET found == [k \in 1..Min2(MaxAnalyzedLines, Len(lines)) |->
                  IF trim(lines[k]) = << >> THEN << >> ELSE namedAfter(keyword, lines[k])]
  IN  uniqueInOrder(SelectSeq(found, LAMBDA name : name # << >>))

\* new RegExp(`\\b${name}\\s*\\(`, 'i')
callPattern(name) ==
  Pattern(Concat(<<WordB, Chars(toLowerCase(name)), Spaces0, Chars(<<"(">>)>>), TRUE,
          <<"C","a","l","l"," ","t","o"," ","f","u","n","c","t","i","o","n"," ","'">> \o name \o <<"'">>, 75)

\* new RegExp(`\\b${name}\\b`, 'i')
classPattern(name) ==
  Pattern(Concat(<<WordB, Chars(toLowerCase(name)), WordB>>), TRUE,
          <<"R","e","f","e","r","e","n","c","e"," ","t","o"," ","c","l","a","s","s"," ","'">> \o name \o <<"'">>, 70)

patternsOfNames(functionNames, classNames) ==
  [k \in 1..Len(functionNames) |-> callPattern(functionNames[k])]
    \o [k \in 1..Len(classNames) |-> classPattern(classNames[k])]

\* the patterns made of the function and class names the file declares
analyzeContentForPatterns(lines, language) ==
  patternsOfNames(namesAfter(AnyOf(<<<<"f","u","n","c","t","i","o","n">>, <<"d","e","f">>, <<"f","n">>>>), lines),
                  namesAfter(Chars(<<"c","l","a","s","s">>), lines))

generateLanguagePatterns(language, lines) ==
  getBasePatterns(language) \o analyzeContentForPatterns(lines, language)

\* a double as the text JavaScript prints for it, with its place among the
\* scores in increasing order
Double(text, order) == [text |-> text, order |-> order]

\* confidence - distance * 0.1 in IEEE 754 double arithmetic, for the
\* confidences 0.6, 0.7, 0.75 and 0.8 (in hundredths) and the distances 0 to 5
scores ==
  [confidence \in {60, 70, 75, 80} |->
     IF confidence = 60
     THEN <<Double(<<"0",".","6">>, 13), Double(<<"0",".","5">>, 11), Double(<<"0",".","3","9","9","9","9","9","9","9","9","9","9","9","9","9","9","9","7">>, 7),
            Double(<<"0",".","2","9","9","9","9","9","9","9","9","9","9","9","9","9","9","9","3">>, 3), Double(<<"0",".","1","9","9","9","9","9","9","9","9","9","9","9","9","9","9","9","6">>, 1),
            Double(<<"0",".","0","9","9","9","9","9","9","9","9","9","9","9","9","9","9","9","8">>, 0)>>
     ELSE IF confidence = 70
     THEN <<Double(<<"0",".","7">>, 16), Double(<<"0",".","6">>, 13), Double(<<"0",".","4","9","9","9","9","9","9","9","9","9","9","9","9","9","9","9","4">>, 10),
            Double(<<"0",".","3","9","9","9","9","9","9","9","9","9","9","9","9","9","9","9">>, 6), Double(<<"0",".","2","9","9","9","9","9","9","9","9","9","9","9","9","9","9","9","3">>, 3),
            Double(<<"0",".","1","9","9","9","9","9","9","9","9","9","9","9","9","9","9","9","6">>, 1)>>
     ELSE IF confidence = 75
     THEN <<Double(<<"0",".","7","5">>, 18), Double(<<"0",".","6","5">>, 15), Double(<<"0",".","5","5">>, 12),
            Double(<<"0",".","4","4","9","9","9","9","9","9","9","9","9","9","9","9","9","9","6">>, 9), Double(<<"0",".","3","5">>, 5), Double(<<"0",".","2","5">>, 2)>>
     ELSE <<Double(<<"0",".","8">>, 19), Double(<<"0",".","7","0","0","0","0","0","0","0","0","0","0","0","0","0","0","1">>, 17),
            Double(<<"0",".","6","0","0","0","0","0","0","0","0","0","0","0","0","0","0","1">>, 14), Double(<<"0",".","5">>, 11), Double(<<"0",".","4">>, 8),
            Double(<<"0",".","3","0","0","0","0","0","0","0","0","0","0","0","0","0","0","0","4">>, 4)>>]

\* pattern.confidence - distancePenalty
scoreAt(confidence, distance) == scores[confidence][distance + 1]

\* Math.max(0.1, score): only 0.09999999999999998 is below 0.1
atLeastTenth(score) == IF score.order = 0 THEN <<"0",".","1">> ELSE score.text

\* what the strategies of findBestCodeMatch return; no match has lineIndex -1
CodeMatch(lineIndex, reason, confidence) ==
  [lineIndex |-> lineIndex, reason |-> reason, confidence |-> confidence]

NoCodeMatch == CodeMatch(-1, JNull, << >>)

testPattern(pattern, line) ==
  IF pattern.ignoreCase THEN testIgnoreCase(pattern.regex, line)
  ELSE test(pattern.regex, line)

SearchRange == 5

\* the first index of the range, and the last
rangeStart(originalIndex, range) == Max2(0, originalIndex - range)

rangeEnd(lines, originalIndex, range) == Min2(Len(lines) - 1, originalIndex + range)

\* the line and pattern of the best score, the first of them in the order of
\* the two loops, among the hits
bestHit(hits, score(_)) ==
  LET best == SetMax({score(h) : h \in hits})
      line == SetMin({h[1] : h \in {g \in hits : score(g) = best}})
  IN  <<line, SetMin({h[2] : h \in {g \in hits : score(g) = best /\ g[1] = line}})>>

\* lines 127-154 of findPatternMatch: every line of the range that is not
\* empty is tested against every pattern; the best score wins, the first one
\* among equals
patternMatchOf(lines, originalIndex, searchRange, patterns) ==
  LET hits == {h \in (rangeStart(originalIndex, searchRange)
                        ..rangeEnd(lines, originalIndex, searchRange))
                     \X (1..Len(patterns)) :
                 /\ lines[h[1] + 1] # << >>
                 /\ testPattern(patterns[h[2]], lines[h[1] + 1])}
      score(h) == scoreAt(patterns[h[2]].confidence, Abs(h[1] - originalIndex)).order
      won == bestHit(hits, score)
  IN  IF Len(patterns) = 0 \/ hits = {} THEN NoCodeMatch
      ELSE CodeMatch(won[1], JStr(patterns[won[2]].reason),
                     atLeastTenth(scoreAt(patterns[won[2]].confidence,
                                          Abs(won[1] - originalIndex))))

\* the nearest line above with code, else the nearest below
findNearestSignificantCode(lines, originalIndex, searchRange) ==
  LET above == {i \in rangeStart(originalIndex, searchRange)..(originalIndex - 1) :
                  isSignificantCode(lines[i + 1])}
      below == {i \in (originalIndex + 1)..rangeEnd(lines, originalIndex, searchRange) :
                  isSignificantCode(lines[i + 1])}
  IN  IF above # {}
      THEN CodeMatch(SetMax(above), JStr(<<"F","o","u","n","d"," ","s","i","g","n","i","f","i","c","a","n","t"," ","c","o","d","e"," ","a","b","o","v","e">>), <<"0",".","7">>)
      ELSE IF below # {}
      THEN CodeMatch(SetMin(below), JStr(<<"F","o","u","n","d"," ","s","i","g","n","i","f","i","c","a","n","t"," ","c","o","d","e"," ","b","e","l","o","w">>), <<"0",".","6">>)
      ELSE NoCodeMatch

\* /^\s*(public|private|protected|function|def)\s+\w+/i
DeclarationStart ==
  Concat(<<Bol, Spaces0,
           AnyOf(<<<<"p","u","b","l","i","c">>, <<"p","r","i","v","a","t","e">>, <<"p","r","o","t","e","c","t","e","d">>, <<"f","u","n","c","t","i","o","n">>, <<"d","e","f">>>>),
           Spaces1, Word1>>)

\* /^\s*(class|interface|trait)\s+\w+/i
ClassStart ==
  Concat(<<Bol, Spaces0, AnyOf(<<<<"c","l","a","s","s">>, <<"i","n","t","e","r","f","a","c","e">>, <<"t","r","a","i","t">>>>), Spaces1, Word1>>)

\* /^\s*(if|for|while|switch|try|catch)\s*\(/i
StatementStart ==
  Concat(<<Bol, Spaces0,
           AnyOf(<<<<"i","f">>, <<"f","o","r">>, <<"w","h","i","l","e">>, <<"s","w","i","t","c","h">>, <<"t","r","y">>, <<"c","a","t","c","h">>>>),
           Spaces0, Chars(<<"(">>)>>)

\* /^\s*\$\w+\s*=.*[;}]\s*$/
VariableAssignment ==
  Concat(<<Bol, Spaces0, Chars(<<"$">>), Word1, Spaces0, Chars(<<"=">>), Anything,
           OneOf({";", "}"}), Spaces0, Eol>>)

isBlockLine(line) ==
  \/ testIgnoreCase(DeclarationStart, line)
  \/ testIgnoreCase(ClassStart, line)
  \/ testIgnoreCase(StatementStart, line)
  \/ test(VariableAssignment, line)

\* the first line of the range that starts a declaration or a statement
findRelevantCodeBlock(lines, originalIndex, searchRange) ==
  LET blocks == {i \in rangeStart(originalIndex, searchRange)
                         ..rangeEnd(lines, originalIndex, searchRange) :
                   lines[i + 1] # << >> /\ isBlockLine(lines[i + 1])}
  IN  IF blocks = {} THEN NoCodeMatch
      ELSE CodeMatch(SetMin(blocks), JStr(<<"F","o","u","n","d"," ","r","e","l","e","v","a","n","t"," ","c","o","d","e"," ","b","l","o","c","k">>), <<"0",".","7","5">>)

\* findBestCodeMatch once findPatternMatch has given patternMatch
bestCodeMatchAfter(lines, originalIndex, searchRange, patternMatch) ==
  IF patternMatch # NoCodeMatch THEN patternMatch
  ELSE IF findNearestSignificantCode(lines, originalIndex, searchRange) # NoCodeMatch
  THEN findNearestSignificantCode(lines, originalIndex, searchRange)
  ELSE IF findRelevantCodeBlock(lines, originalIndex, searchRange) # NoCodeMatch
  THEN findRelevantCodeBlock(lines, originalIndex, searchRange)
  ELSE CodeMatch(originalIndex, JStr(<<"N","o"," ","b","e","t","t","e","r"," ","m","a","t","c","h"," ","f","o","u","n","d">>), <<"0",".","3">>)

\* /^\s*\$\w+|^\s*(if|for|while|switch|try)\s*\(/i
StatementOrVariableStart ==
  Alt(<<Concat(<<Bol, Spaces0, Chars(<<"$">>), Word1>>),
        Concat(<<Bol, Spaces0, AnyOf(<<<<"i","f">>, <<"f","o","r">>, <<"w","h","i","l","e">>, <<"s","w","i","t","c","h">>, <<"t","r","y">>>>),
                 Spaces0, Chars(<<"(">>)>>)>>)

BackwardDeclarationReach == 10

BackwardStatementReach == 5

\* the start of the window moved back to the declaration, else to the
\* statement, that is nearest above it and within reach of the target
expandContextBackward(lines, start, targetIndex) ==
  LET declarations == {i \in Max2(0, targetIndex - BackwardDeclarationReach)..start :
                         /\ lines[i + 1] # << >>
                         /\ testIgnoreCase(DeclarationStart, lines[i + 1])}
      statements == {i \in Max2(0, targetIndex - BackwardStatementReach)..start :
                       /\ lines[i + 1] # << >>
                       /\ trim(lines[i + 1]) # << >>
                       /\ ~startsWith(trim(lines[i + 1]), <<"*">>)
                       /\ ~startsWith(trim(lines[i + 1]), <<"/","/">>)
                       /\ testIgnoreCase(StatementOrVariableStart, lines[i + 1])}
  IN  IF declarations # {} THEN SetMax(declarations)
      ELSE IF statements # {} THEN SetMax(statements)
      ELSE start

\* the braces after one more character: the level, whether a brace was
\* opened, and whether a closing brace brought an opened block to its end
braceCounted(before, char) ==
  IF before.closed THEN before
  ELSE IF char = "{"
  THEN [level |-> before.level + 1, found |-> TRUE, closed |-> FALSE]
  ELSE IF char = "}"
  THEN [level |-> before.level - 1, found |-> before.found,
        closed |-> before.found /\ before.level - 1 <= 0]
  ELSE before

\* the braces after the characters of a line
bracesAfter(line, before) ==
  LET F[k \in 0..Len(line)] ==
        IF k = 0 THEN before ELSE braceCounted(F[k - 1], line[k])
  IN  F[Len(line)]

endsStatement(line) == endsWith(trim(line), <<";">>) \/ endsWith(trim(line), <<"}">>)

ForwardReach == 10

NoBraces == [level |-> 0, found |-> FALSE, closed |-> FALSE]

\* the search after the line of index i, given the braces counted in it
forwardWith(before, line, i, end, braces) ==
  IF braces.closed
  THEN [braces |-> braces, done |-> TRUE, value |-> Min2(end + 2, i + 1)]
  ELSE IF endsStatement(line)
  THEN [braces |-> braces, done |-> TRUE, value |-> Max2(end, i)]
  ELSE [braces |-> braces, done |-> FALSE, value |-> end]

\* lines 499-517: one round of the loop, for the line of index i
forwardStep(before, line, i, end) ==
  IF before.done \/ line = << >> THEN before
  ELSE forwardWith(before, line, i, end, bracesAfter(line, before.braces))

\* the end of the window after the search, from the target on, for the end of
\* the block or of the statement
expandContextForward(lines, end, targetIndex) ==
  LET last == Min2(Len(lines) - 1, targetIndex + ForwardReach)
      \* the search before the line of index i
      F[i \in targetIndex..(last + 1)] ==
        IF i = targetIndex THEN [braces |-> NoBraces, done |-> FALSE, value |-> end]
        ELSE forwardStep(F[i - 1], lines[i], i - 1, end)
  IN  IF last < targetIndex THEN end ELSE F[last + 1].value

calculateSmartBounds(lines, targetIndex, contextLines) ==
  [start |-> expandContextBackward(lines, Max2(0, targetIndex - contextLines), targetIndex),
   end |-> expandContextForward(lines, Min2(Len(lines) - 1, targetIndex + contextLines),
                                targetIndex)]

\* `${fileName}:${lines.length}`
analysisKey(lines, fileName) == fileName \o <<":">> \o NatToString(Len(lines))

\* `patterns:${language}`
patternsKey(language) == <<"p","a","t","t","e","r","n","s",":">> \o language

\* detectLanguageFromContent: the language the cache holds for the name and
\* the number of lines, else the language detected
detectLanguageFromContent(analysisCache, lines, fileName) ==
  IF MapHas(analysisCache, analysisKey(lines, fileName))
  THEN MapGet(analysisCache, analysisKey(lines, fileName))
  ELSE detectedLanguage(lines, fileName)

\* the cache of file analyses after detectLanguageFromContent
analysisCached(analysisCache, lines, fileName) ==
  IF MapHas(analysisCache, analysisKey(lines, fileName)) THEN analysisCache
  ELSE MapSet(analysisCache, analysisKey(lines, fileName), detectedLanguage(lines, fileName))

\* getLanguagePatterns: the patterns the cache holds for the language, else
\* those generated from these lines
getLanguagePatterns(patterns, language, lines) ==
  IF MapHas(patterns, patternsKey(language)) THEN MapGet(patterns, patternsKey(language))
  ELSE generateLanguagePatterns(language, lines)

\* the cache of patterns after getLanguagePatterns
patternsCached(patterns, language, lines) ==
  IF MapHas(patterns, patternsKey(language)) THEN patterns
  ELSE MapSet(patterns, patternsKey(language), generateLanguagePatterns(language, lines))

\* findPatternMatch with the caches it reads
findPatternMatch(caches, lines, originalIndex, searchRange, fileName) ==
  patternMatchOf(lines, originalIndex, searchRange,
                 getLanguagePatterns(caches.patterns,
                                     detectLanguageFromContent(caches.analysis, lines, fileName),
                                     lines))

\* the caches after findPatternMatch
cachedBy(caches, lines, fileName) ==
  [analysis |-> analysisCached(caches.analysis, lines, fileName),
   patterns |-> patternsCached(caches.patterns,
                               detectLanguageFromContent(caches.analysis, lines, fileName),
                               lines)]

\* the line of the index has code: findBestCodeMatch returns it at once
keepsOriginal(lines, originalIndex) ==
  lines[originalIndex + 1] # << >> /\ isSignificantCode(lines[originalIndex + 1])

findBestCodeMatch(caches, lines, originalIndex, searchRange, fileName) ==
  IF keepsOriginal(lines, originalIndex) THEN CodeMatch(originalIndex, JNull, <<"1">>)
  ELSE bestCodeMatchAfter(lines, originalIndex, searchRange,
                          findPatternMatch(caches, lines, originalIndex, searchRange, fileName))

\* lines[index] || '' with its number and whether it is the target
snippetLine(lines, index, targetIndex) ==
  [lineNumber |-> index + 1,
   content |-> IF index < Len(lines) THEN lines[index + 1] ELSE << >>,
   isTarget |-> index = targetIndex]

\* lines 42-63 of extractCodeSnippet
snippetOf(lines, lineNumber, match, bounds) ==
  [startLine |-> bounds.start + 1,
   endLine |-> bounds.end + 1,
   targetLine |-> match.lineIndex + 1,
   originalTargetLine |-> lineNumber,
   adjusted |-> match.lineIndex # lineNumber - 1,
   adjustmentReason |-> match.reason,
   confidence |-> match.confidence,
   lines |-> [k \in 1..(bounds.end - bounds.start + 1) |->
                snippetLine(lines, bounds.start + k - 1, match.lineIndex)]]

snippetAround(lines, lineNumber, contextLines, match) ==
  snippetOf(lines, lineNumber, match,
            calculateSmartBounds(lines, match.lineIndex, contextLines))

\* lines 25-35: the calls that return null
isRejected(fileContent, lineNumber, contextLines) ==
  \/ fileContent = << >>
  \/ lineNumber < 1
  \/ contextLines < 0
  \/ lineNumber - 1 >= Len(split(fileContent, NL))

NoSnippet == [kind |-> "null"]

Snippet(value) == [kind |-> "value", value |-> value]

\* extractCodeSnippet for whole numbers, with the caches as it finds them
extractCodeSnippet(caches, fileContent, lineNumber, contextLines, fileName) ==
  IF isRejected(fileContent, lineNumber, contextLines) THEN NoSnippet
  ELSE Snippet(snippetAround(split(fileContent, NL), lineNumber, contextLines,
                             findBestCodeMatch(caches, split(fileContent, NL), lineNumber - 1,
                                               SearchRange, fileName)))

\* the caches after extractCodeSnippet
cachesAfter(caches, fileContent, lineNumber, contextLines, fileName) ==
  IF \/ isRejected(fileContent, lineNumber, contextLines)
     \/ keepsOriginal(split(fileContent, NL), lineNumber - 1)
  THEN caches
  ELSE cachedBy(caches, split(fileContent, NL), fileName)

NoCaches == [analysis |-> EmptyMap, patterns |-> EmptyMap]

MAX_CACHE_SIZE == 100

\* the first keys of a Map beyond MAX_CACHE_SIZE deleted
withoutOldest(m) ==
  IF Len(m.keys) > MAX_CACHE_SIZE
  THEN [keys |-> SubSeq(m.keys, Len(m.keys) - MAX_CACHE_SIZE + 1, Len(m.keys)),
        vals |-> SubSeq(m.vals, Len(m.vals) - MAX_CACHE_SIZE + 1, Len(m.vals))]
  ELSE m

\* cleanupCaches: no function of the repository calls it
cleanupCaches(caches) ==
  [analysis |-> withoutOldest(caches.analysis), patterns |-> withoutOldest(caches.patterns)]

-----------------------------------------------------------------------------
(* services/llm.js: runCodeReview, the child process and its timer          *)

toUpperChar(c) ==
  IF c \in LowerSet
  THEN UpperLetters[CHOOSE k \in DOMAIN LowerLetters : LowerLetters[k] = c]
  ELSE c

\* s.toUpperCase()
toUpperCase(s) == [i \in 1..Len(s) |-> toUpperChar(s[i])]

\* config.llms of config.js: the providers in the order of their keys, with
\* their timeout in milliseconds
llms ==
  << [name |-> <<"g","e","m","i","n","i">>, timeout |-> 5 * 60 * 1000],
     [name |-> <<"c","l","a","u","d","e">>, timeout |-> 5 * 60 * 1000],
     [name |-> <<"o","p","e","n","a","i">>, timeout |-> 5 * 60 * 1000],
     [name |-> <<"o","l","l","a","m","a">>, timeout |-> 10 * 60 * 1000],
     [name |-> <<"c","o","p","i","l","o","t">>, timeout |-> 5 * 60 * 1000],
     [name |-> <<"c","h","a","t","g","p","t">>, timeout |-> 5 * 60 * 1000],
     [name |-> <<"l","l","a","m","a">>, timeout |-> 10 * 60 * 1000] >>

\* config.llms[llmName.toLowerCase()] is defined
isSupported(llmName) == \E k \in 1..Len(llms) : llms[k].name = toLowerCase(llmName)

\* config.llms[llmName.toLowerCase()]
llmConfigOf(llmName) == llms[CHOOSE k \in 1..Len(llms) : llms[k].name = toLowerCase(llmName)]

\* Object.keys(config.llms).join(', ')
RECURSIVE supportedFrom(_)
supportedFrom(k) ==
  IF k > Len(llms) THEN << >>
  ELSE (IF k > 1 THEN <<","," ">> ELSE << >>) \o llms[k].name \o supportedFrom(k + 1)

\* the digits of a number below 1000 after the point, without closing zeros
RECURSIVE fractionText(_, _)
fractionText(thousandths, width) ==
  IF thousandths = 0 THEN << >>
  ELSE <<DigitSeq[(thousandths \div width) + 1]>>
         \o fractionText((thousandths % width) * 10, width)

\* `${milliseconds / 1000}` for a whole number of milliseconds
secondsText(milliseconds) ==
  NatToString(milliseconds \div 1000)
    \o (IF milliseconds % 1000 = 0 THEN << >>
        ELSE <<".">> \o fractionText(milliseconds % 1000, 100))

\* line 22
unsupportedError(llmName) ==
  <<"U","n","s","u","p","p","o","r","t","e","d"," ","L","L","M",":"," ">> \o llmName \o <<"."," ","S","u","p","p","o","r","t","e","d"," ","L","L","M","s",":"," ">> \o supportedFrom(1)

\* line 44
timeoutErrorWithoutCase(llmName, llmConfig) ==
  llmName \o <<" ","C","L","I"," ","t","i","m","e","d"," ","o","u","t"," ","a","f","t","e","r"," ">> \o secondsText(llmConfig.timeout) \o <<" ","s","e","c","o","n","d","s">>

timeoutError(llmName, llmConfig) ==
  toUpperCase(llmName) \o <<" ","C","L","I"," ","t","i","m","e","d"," ","o","u","t"," ","a","f","t","e","r"," ">> \o secondsText(llmConfig.timeout)
    \o <<" ","s","e","c","o","n","d","s">>

\* `${code}` of the exit code of a process: a number, or null after a signal
codeText(code) == IF code = JNull THEN <<"n","u","l","l">> ELSE NatToString(code.n)

\* line 63
executionErrorWithoutOutput(llmName, code, errorOutput) ==
  toUpperCase(llmName) \o <<" ","C","L","I"," ","e","x","e","c","u","t","i","o","n"," ","f","a","i","l","e","d"," ","w","i","t","h"," ","c","o","d","e"," ">> \o codeText(code) \o <<":"," ">>

executionError(llmName, code, errorOutput) ==
  toUpperCase(llmName) \o <<" ","C","L","I"," ","e","x","e","c","u","t","i","o","n"," ","f","a","i","l","e","d"," ","w","i","t","h"," ","c","o","d","e"," ">> \o codeText(code) \o <<":"," ">>
    \o errorOutput

\* line 70
startError(llmName, message) ==
  <<"F","a","i","l","e","d"," ","t","o"," ","s","t","a","r","t"," ">> \o toUpperCase(llmName) \o <<" ","C","L","I",":"," ">> \o message

\* the character e with an acute accent, of two bytes in UTF-8, and the
\* character that decoding puts for bytes that are no character
EAcute == "U+00E9"
ReplacementChar == "U+FFFD"
LeadByte == "0xC3"
TrailByte == "0xA9"

\* data.toString() of a Buffer: a byte below 128 is its character, the two
\* bytes of the accented e together are that character, either alone is not
RECURSIVE bufferToString(_)
bufferToString(data) ==
  IF data = << >> THEN << >>
  ELSE IF Len(data) >= 2 /\ data[1] = LeadByte /\ data[2] = TrailByte
       THEN <<EAcute>> \o bufferToString(SubSeq(data, 3, Len(data)))
  ELSE IF data[1] \in {LeadByte, TrailByte}
       THEN <<ReplacementChar>> \o bufferToString(Tail(data))
  ELSE <<data[1]>> \o bufferToString(Tail(data))

\* a promise and what resolve and reject do to it: they settle a pending
\* promise and leave a settled one as it is
NoPromise == [state |-> "none", value |-> << >>]
PendingPromise == [state |-> "pending", value |-> << >>]
Fulfilled(value) == [state |-> "fulfilled", value |-> value]
Rejected(message) == [state |-> "rejected", value |-> message]

resettled(p, settlement) == settlement

settled(p, settlement) == IF p.state = "pending" THEN settlement ELSE p

\* clearTimeout(timeout)
cleared(timer) == IF timer = "armed" THEN "cleared" ELSE timer

-----------------------------------------------------------------------------
(* State.  Two machines share the variables.                               *)
(*                                                                         *)
(* The review run (Spec) is performLocalReview and performGitLabReview of   *)
(* services/review-orchestrator.js from the reading of the changed files   *)
(* on: the context blob is built from the changed files, the LLM process   *)
(* answers, its output is parsed by parseReviewResponse and the parsed     *)
(* review is reconciled with the context blob by                           *)
(* validateAndFixLineNumbers.  An error ends the run (the catch block      *)
(* exits the process).                                                     *)
(*                                                                         *)
(* The line matcher (SpecResolve) is one call of findActualLineFromContent *)
(* taken block by block: snippet extraction, then the exact, fuzzy,        *)
(* original-line and keyword steps, each returning or falling through.     *)

VARIABLES
  pc,               \* where the run or the call stands
  changedFiles,     \* the changed files of the run: path, text, readable or not
  review,           \* the captured output of the LLM process
  llmChoice,        \* the provider hint
  fileContext,      \* the context blob
  parsedReview,     \* what parseReviewResponse returned or raised
  validatedReview,  \* what validateAndFixLineNumbers returned or raised
  comment,          \* the comment findActualLineFromContent is called with
  fileContent,      \* the file text it is called with
  codeSnippets,     \* the candidate snippets of the comment
  tried,            \* the steps of the ladder that have run, in order
  outcome,          \* what findActualLineFromContent returned or raised
  patternCache,     \* the cache of patterns by language
  fileAnalysisCache,\* the cache of languages by file name and number of lines
  call,             \* the arguments of the last call of extractCodeSnippet
  returned,         \* what that call returned
  llmName,          \* the name runCodeReview was called with
  llmProcess,       \* the child process: spawned, killed how often, closed, failed
  timeout,          \* the timer: unset, armed, fired or cleared
  promise,          \* the promise runCodeReview returned
  stdout,           \* the text collected from the standard output of the process
  stderr,           \* the text collected from its standard error
  emitted,          \* the events of the process and the timer handled so far, in order
  effects,          \* what the program did to the file system and the console, in order
  step,             \* where performGitLabReview stands
  discussions,      \* the discussions of the merge request as GitLab returns them
  createdDirectory, \* the directory setupRepository has created
  temporaryDirectory, \* the directory performGitLabReview holds, null before the clone
  thrown,           \* the message of the error that was thrown in the try block
  directoryPath     \* the argument of the last call of cleanupDirectory

vars == <<pc, changedFiles, review, llmChoice, fileContext, parsedReview, validatedReview,
          comment, fileContent, codeSnippets, tried, outcome,
          patternCache, fileAnalysisCache, call, returned,
          llmName, llmProcess, timeout, promise, stdout, stderr, emitted, effects,
          step, discussions, createdDirectory, temporaryDirectory, thrown, directoryPath>>

runVars == <<changedFiles, review, llmChoice, fileContext, parsedReview, validatedReview>>

callVars == <<comment, fileContent, codeSnippets, tried, outcome>>

extractorVars == <<patternCache, fileAnalysisCache, call, returned>>

\* the variables of the machines other than the review run and the line matcher
llmVars == <<llmName, llmProcess, timeout, promise, stdout, stderr, emitted>>

gitlabVars == <<step, discussions, createdDirectory, temporaryDirectory, thrown, directoryPath>>

otherVars == <<extractorVars, llmVars, effects, gitlabVars>>

\* no call of extractCodeSnippet has been made
NoCall == [made |-> FALSE, fileContent |-> << >>, lineNumber |-> 0, contextLines |-> 0,
           fileName |-> << >>]

extractorIdle ==
  /\ patternCache = EmptyMap
  /\ fileAnalysisCache = EmptyMap
  /\ call = NoCall
  /\ returned = NoSnippet

NoProcess == [spawned |-> FALSE, kills |-> 0, closed |-> FALSE, failed |-> FALSE]

\* runCodeReview has not been called
llmIdle ==
  /\ llmName = << >>
  /\ llmProcess = NoProcess
  /\ timeout = "unset"
  /\ promise = NoPromise
  /\ stdout = << >>
  /\ stderr = << >>
  /\ emitted = << >>

\* a call of fs, of console or of another module, with its argument
Effect(kind, value) == [kind |-> kind, value |-> value]

\* performGitLabReview has not been called, and cleanupDirectory neither
gitlabIdle ==
  /\ step = "idle"
  /\ discussions = << >>
  /\ createdDirectory = JNull
  /\ temporaryDirectory = JNull
  /\ thrown = << >>
  /\ directoryPath = JUndef

othersIdle == extractorIdle /\ llmIdle /\ effects = << >> /\ gitlabIdle

\* nothing returned yet
Pending == [kind |-> "pending", value |-> JUndef]

\* the fields of a returned comment
lineOf(c) == GetProp(c, <<"l","i","n","e">>)

methodOf(c) == GetProp(c, <<"_","c","o","r","r","e","c","t","i","o","n","M","e","t","h","o","d">>).s

confidenceOf(c) == Rat(GetProp(c, <<"_","c","o","n","f","i","d","e","n","c","e">>).n, GetProp(c, <<"_","c","o","n","f","i","d","e","n","c","e">>).d)

-----------------------------------------------------------------------------
(* The line matcher, step by step *)

fileLinesOf(content) == split(content, NL)

\* lines 100-104: the comment's text is scanned for snippets; a comment whose
\* text is no string has no match method, and the call raises
ExtractSnippets ==
  /\ pc = "call"
  /\ IF GetProp(comment, <<"c","o","m","m","e","n","t">>).t = "string"
     THEN /\ codeSnippets' =
               extractCodeSnippetsFromComment(GetProp(comment, <<"c","o","m","m","e","n","t">>).s)
          /\ pc' = "exact"
          /\ outcome' = outcome
     ELSE /\ codeSnippets' = codeSnippets
          /\ pc' = "returned"
          /\ outcome' = Thrown
  /\ tried' = tried
  /\ UNCHANGED <<comment, fileContent, runVars, otherVars>>

\* lines 106-119
TryExact ==
  /\ pc = "exact"
  /\ tried' = Append(tried, "exact")
  /\ IF exactStep(codeSnippets, fileLinesOf(fileContent)).found
     THEN /\ outcome' = exactResult(comment,
                                    exactStep(codeSnippets, fileLinesOf(fileContent)))
          /\ pc' = "returned"
     ELSE /\ outcome' = outcome
          /\ pc' = "fuzzy"
  /\ UNCHANGED <<comment, fileContent, codeSnippets, runVars, otherVars>>

\* lines 121-134
TryFuzzy ==
  /\ pc = "fuzzy"
  /\ tried' = Append(tried, "fuzzy")
  /\ IF fuzzyStep(codeSnippets, fileLinesOf(fileContent)).found
     THEN /\ outcome' = fuzzyResult(comment,
                                    fuzzyStep(codeSnippets, fileLinesOf(fileContent)))
          /\ pc' = "returned"
     ELSE /\ outcome' = outcome
          /\ pc' = "original"
  /\ UNCHANGED <<comment, fileContent, codeSnippets, runVars, otherVars>>

\* lines 136-148
TryOriginalLine ==
  /\ pc = "original"
  /\ tried' = Append(tried, "original")
  /\ IF originalLineStep(comment, fileLinesOf(fileContent))
     THEN /\ outcome' = Returned(originalKept(comment))
          /\ pc' = "returned"
     ELSE /\ outcome' = outcome
          /\ pc' = "keyword"
  /\ UNCHANGED <<comment, fileContent, codeSnippets, runVars, otherVars>>

\* lines 150-162
TryKeyword ==
  /\ pc = "keyword"
  /\ tried' = Append(tried, "keyword")
  /\ outcome' = keywordResult(comment,
                              keywordStep(GetProp(comment, <<"c","o","m","m","e","n","t">>).s,
                                          fileLinesOf(fileContent)))
  /\ pc' = "returned"
  /\ UNCHANGED <<comment, fileContent, codeSnippets, runVars, otherVars>>

NextResolve ==
  \/ ExtractSnippets
  \/ TryExact
  \/ TryFuzzy
  \/ TryOriginalLine
  \/ TryKeyword

-----------------------------------------------------------------------------
(* The calls of findActualLineFromContent that are explored *)

\* the longest file, in lines
MaxFileLines == 2

\* the lines files are made of
LinePool ==
  { << >>,
    <<" "," ","i","f"," ","(","r","e","t","r","i","e","s"," ","=","="," ","3",")"," ","{">>,
    <<"r","e","t","r","y","(",")",";">>,
    <<"}">>,
    <<"c","o","n","s","t"," ","r","e","t","r","y","L","i","m","i","t"," ","="," ","1","0",";">> }

\* the files: every sequence of one to MaxFileLines lines of the pool, joined
\* by newlines
FilePool ==
  {joinLines(lines) : lines \in UNION {[1..n -> LinePool] : n \in 1..MaxFileLines}}

\* a comment that quotes a text between backticks
QuoteComment(text) == <<"C","h","e","c","k"," ">> \o <<BT>> \o text \o <<BT>>

\* the comment of Scenario A
ScenarioAComment == <<"T","h","e"," ","r","e","t","r","y"," ","l","i","m","i","t"," ">> \o <<BT, "3", BT>> \o <<" ","s","h","o","u","l","d"," ","b","e"," ","c","o","n","f","i","g","u","r","a","b","l","e">>

\* the texts of comments
CommentPool ==
  { ScenarioAComment,
    <<"r","e","t","r","y"," ","l","i","m","i","t">>,
    <<"c","o","n","s","t"," ","r","e","t","r","y"," ","l","i","m","i","t"," ","m","a","g","i","c"," ","n","u","m","b","e","r">>,
    <<"L","o","o","k","s"," ","f","i","n","e">>,
    <<"c","o","m","p","a","r","e"," ","=","="," ","3"," ","h","e","r","e">>,
    <<"C","a","l","l"," ">> \o <<BT>> \o <<"R","e","t","r","y","(",")">> \o <<BT>> \o <<" ","t","w","i","c","e">>,
    <<"U","s","e"," ">> \o <<BT>> \o <<"R","e","t","r","y","(",")",";">> \o <<BT>> \o <<" ","h","e","r","e">>,
    <<"U","s","e"," ">> \o <<BT>> \o <<"R","e","t","r","y","(",")",";">> \o <<BT>> \o <<" ","a","n","d"," ">> \o <<BT>> \o <<"r","e","t","r","y","L","i","m","i","t">> \o <<BT>>,
    <<"U","s","e"," ">> \o <<BT>> \o <<"r","e","t","r","y","(",")",";">> \o <<BT>> \o <<" ","a","n","d"," ">> \o <<BT>> \o <<"r","e","t","r","y","L","i","m","i","t">> \o <<BT>>,
    <<"U","s","e"," ">> \o <<BT>> \o <<"R","e","t","r","y","(",")">> \o <<BT>> \o <<" ","a","n","d"," ">> \o <<BT>> \o <<"R","e","t","r","y","(",")",";">> \o <<BT>> }
  \cup {QuoteComment(trim(line)) : line \in LinePool}

\* the path of the file a comment is about
ReviewedFile == <<"a",".","j","s">>

\* Scenario A: the line that reads "if (retries == 3) {"
ScenarioLine == 42

ScenarioTarget == <<" "," ","i","f"," ","(","r","e","t","r","i","e","s"," ","=","="," ","3",")"," ","{">>

\* the files of Scenario A: the target at line ScenarioLine, any other line of
\* the pool at line 1, and one other line of the pool repeated between them
ScenarioAFiles ==
  {joinLines([k \in 1..ScenarioLine |->
                IF k = ScenarioLine THEN ScenarioTarget
                ELSE IF k = 1 THEN first ELSE filler]) :
     first \in LinePool \ {ScenarioTarget}, filler \in LinePool \ {ScenarioTarget}}

ScenarioACall == Comment(<<"a","p","p",".","j","s">>, JInt(1), ScenarioAComment)

\* a comment object that has no text
TextlessComment == JObj(<<<<"f","i","l","e">>, <<"l","i","n","e">>>>, <<JStr(ReviewedFile), JInt(1)>>)

\* the calls: a comment about a file of the pool, claiming any line from 0 to
\* one past the longest file; a comment whose text is missing; Scenario A
InitResolve ==
  /\ pc = "call"
  /\ \/ /\ fileContent \in FilePool
        /\ comment \in
             {Comment(ReviewedFile, JInt(line), text) :
                line \in 0..(MaxFileLines + 1), text \in CommentPool}
             \cup {TextlessComment}
     \/ /\ fileContent \in ScenarioAFiles
        /\ comment = ScenarioACall
  /\ codeSnippets = << >>
  /\ tried = << >>
  /\ outcome = Pending
  /\ changedFiles = << >>
  /\ review = << >>
  /\ llmChoice = << >>
  /\ fileContext = << >>
  /\ parsedReview = Pending
  /\ validatedReview = Pending
  /\ othersIdle

SpecResolve == InitResolve /\ [][NextResolve]_vars

\* the step actions return what the function returns
ResolveAgrees ==
  pc = "returned" => outcome = findActualLineFromContent(comment, fileContent)

-----------------------------------------------------------------------------
(* The review run *)

\* readFilesForContext of utils/file-handler.js (readLocalFilesForContext of
\* services/local-git.js is the same loop): a header line and the text of
\* every file that can be read, each followed by a blank line
readFilesUntilFailure(filePaths) ==
  LET F[k \in 0..Len(filePaths)] ==
        IF k = 0 THEN << >>
        ELSE IF \A j \in 1..k : filePaths[j].readable
        THEN F[k - 1] \o <<"-","-","-"," ">> \o filePaths[k].path \o <<" ","-","-","-",NL>>
                      \o filePaths[k].content \o <<NL, NL>>
        ELSE F[k - 1]
  IN  F[Len(filePaths)]

readFilesForContext(filePaths) ==
  LET F[k \in 0..Len(filePaths)] ==
        IF k = 0 THEN << >>
        ELSE IF filePaths[k].readable
        THEN F[k - 1] \o <<"-","-","-"," ">> \o filePaths[k].path \o <<" ","-","-","-",NL>>
                      \o filePaths[k].content \o <<NL, NL>>
        ELSE F[k - 1]
  IN  F[Len(filePaths)]

\* error.message of a read that fails
ReadErrorMessage == <<"E","N","O","E","N","T",":"," ","n","o"," ","s","u","c","h"," ","f","i","l","e"," ","o","r"," ","d","i","r","e","c","t","o","r","y">>

\* line 29
couldNotRead(filePath) ==
  <<"W","a","r","n","i","n","g",":"," ","C","o","u","l","d"," ","n","o","t"," ","r","e","a","d"," ","f","i","l","e"," ">> \o filePath \o <<":"," ">> \o ReadErrorMessage

\* the reads and the warnings of readFilesForContext: every file is read, and
\* a read that fails is followed by console.warn
readEffects(filePaths) ==
  LET F[k \in 0..Len(filePaths)] ==
        IF k = 0 THEN << >>
        ELSE F[k - 1] \o <<Effect("readFile", filePaths[k].path)>>
               \o (IF filePaths[k].readable THEN << >>
                   ELSE <<Effect("warn", couldNotRead(filePaths[k].path))>>)
  IN  F[Len(filePaths)]

ChangedFile(path, content, readable) ==
  [path |-> path, content |-> content, readable |-> readable]

\* the sets of changed files a run starts from
ChangedFilesPool ==
  { << >>,
    <<ChangedFile(<<"a",".","j","s">>, <<"r","e","t","r","y","(",")",";",NL,"}">>, TRUE)>>,
    <<ChangedFile(<<"a",".","j","s">>, <<"r","e","t","r","y","(",")",";",NL,"}">>, FALSE)>>,
    <<ChangedFile(<<"a",".","j","s">>, <<NL,"c","o","n","s","t"," ","r","e","t","r","y","L","i","m","i","t"," ","="," ","1","0",";",NL,NL,"r","e","t","r","y","(",")",";",NL>>, TRUE),
      ChangedFile(<<"b",".","j","s">>, <<"}">>, TRUE)>> }

\* the provider names a run is started with
LlmChoices == {<<"c","l","a","u","d","e">>, <<"C","l","a","u","d","e">>, <<"g","e","m","i","n","i">>}

\* JSON texts an LLM may answer with
ReviewBodies ==
  { <<"{",DQ,"s","u","m","m","a","r","y",DQ,":",DQ,"o","k",DQ,",",DQ,"c","o","m","m","e","n","t","s",DQ,":","[","]","}">>,
    <<"{",DQ,"s","u","m","m","a","r","y",DQ,":",DQ,"s",DQ,",",DQ,"c","o","m","m","e","n","t","s",DQ,":","[","{",DQ,"f","i","l","e",DQ,":",DQ,"a",".","j","s",DQ,",",DQ,"l","i","n","e",DQ,":","9",",",DQ,"c","o","m","m","e","n","t",DQ,":",DQ,"C","a","l","l"," ",BT,"r","e","t","r","y","(",")",BT," ","t","w","i","c","e",DQ,"}","]","}">>,
    <<"{",DQ,"s","u","m","m","a","r","y",DQ,":",DQ,"s",DQ,",",DQ,"c","o","m","m","e","n","t","s",DQ,":","[","{",DQ,"f","i","l","e",DQ,":",DQ,"a",".","j","s",DQ,",",DQ,"l","i","n","e",DQ,":","9",",",DQ,"c","o","m","m","e","n","t",DQ,":",DQ,"L","o","o","k","s"," ","f","i","n","e",DQ,"}","]","}">>,
    <<"{",DQ,"s","u","m","m","a","r","y",DQ,":",DQ,"s",DQ,",",DQ,"c","o","m","m","e","n","t","s",DQ,":","[","{",DQ,"f","i","l","e",DQ,":",DQ,"m","i","s","s","i","n","g",".","j","s",DQ,",",DQ,"l","i","n","e",DQ,":","1",",",DQ,"c","o","m","m","e","n","t",DQ,":",DQ,"L","o","o","k","s"," ","f","i","n","e",DQ,"}",",","{",DQ,"f","i","l","e",DQ,":",DQ,"a",".","j","s",DQ,",",DQ,"l","i","n","e",DQ,":","1",",",DQ,"c","o","m","m","e","n","t",DQ,":",DQ,"L","o","o","k","s"," ","f","i","n","e",DQ,"}","]","}">>,
    <<"{",DQ,"s","u","m","m","a","r","y",DQ,":",DQ,"s",DQ,",",DQ,"c","o","m","m","e","n","t","s",DQ,":","[","{",DQ,"f","i","l","e",DQ,":",DQ,"a",".","j","s",DQ,",",DQ,"l","i","n","e",DQ,":",DQ,"1",DQ,",",DQ,"c","o","m","m","e","n","t",DQ,":",DQ,"L","o","o","k","s"," ","f","i","n","e",DQ,"}","]","}">>,
    <<"{",DQ,"s","u","m","m","a","r","y",DQ,":",DQ,"s",DQ,",",DQ,"c","o","m","m","e","n","t","s",DQ,":","[","{",DQ,"f","i","l","e",DQ,":",DQ,"a",".","j","s",DQ,",",DQ,"l","i","n","e",DQ,":","1","}","]","}">>,
    <<"{",DQ,"s","u","m","m","a","r","y",DQ,":",DQ,"s",DQ,",",DQ,"c","o","m","m","e","n","t","s",DQ,":","[","n","u","l","l","]","}">>,
    <<"{",DQ,"s","u","m","m","a","r","y",DQ,":",DQ,"s",DQ,",",DQ,"c","o","m","m","e","n","t","s",DQ,":","[","{",DQ,"f","i","l","e",DQ,":",DQ,"a",".","j","s",DQ,",",DQ,"l","i","n","e",DQ,":","1",",",DQ,"c","o","m","m","e","n","t",DQ,":","n","u","l","l","}","]","}">>,
    <<"{",DQ,"s","u","m","m","a","r","y",DQ,":",DQ,"s",DQ,",",DQ,"c","o","m","m","e","n","t","s",DQ,":","5","}">>,
    <<"{",DQ,"n","o","t","e",DQ,":","1","}">>,
    <<"[","]">>,
    <<"n","u","l","l">>,
    <<"4","2">>,
    <<"I"," ","c","o","u","l","d"," ","n","o","t"," ","r","e","v","i","e","w"," ","t","h","i","s",".">> }

\* the text between fence markers, as LLMs write it
Fenced(body) == <<BT, BT, BT>> \o <<"j","s","o","n",NL>> \o body \o <<NL, BT, BT, BT>>

\* a text as a JSON string literal: a backslash before every quote and
\* backslash, \n for a newline
jsonQuote(text) ==
  LET special(k) == text[k] \in {NL, DQ, BS}
      first(k) == k + Cardinality({i \in 1..(k - 1) : special(i)})
      last(k) == IF special(k) THEN first(k) + 1 ELSE first(k)
      length == Len(text) + Cardinality({i \in 1..Len(text) : special(i)})
      at(j) == LET k == CHOOSE k \in 1..Len(text) : first(k) <= j /\ j <= last(k)
               IN  IF special(k) /\ j = first(k) THEN BS
                   ELSE IF text[k] = NL THEN "n"
                   ELSE text[k]
  IN  <<DQ>> \o [j \in 1..length |-> at(j)] \o <<DQ>>

\* the envelope the Claude CLI puts around its answer
Envelope(result) ==
  <<"{",DQ,"t","y","p","e",DQ,":",DQ,"r","e","s","u","l","t",DQ,",",DQ,"r","e","s","u","l","t",DQ,":">> \o jsonQuote(result) \o <<"}">>

\* what the LLM process may print: a body bare, between fence markers, inside
\* prose, or fenced inside the Claude envelope
ReviewPool ==
  UNION {{body,
          Fenced(body) \o <<NL>>,
          <<"H","e","r","e"," ","i","s"," ","t","h","e"," ","r","e","v","i","e","w",":"," ">> \o body \o <<" ","D","o","n","e",".">>,
          Envelope(Fenced(body))} : body \in ReviewBodies}

Init ==
  /\ pc = "start"
  /\ changedFiles \in ChangedFilesPool
  /\ llmChoice \in LlmChoices
  /\ fileContext = << >>
  /\ review = << >>
  /\ parsedReview = Pending
  /\ validatedReview = Pending
  /\ comment = JNull
  /\ fileContent = << >>
  /\ codeSnippets = << >>
  /\ tried = << >>
  /\ outcome = Pending
  /\ othersIdle

\* review-orchestrator.js lines 62 and 203
ReadFilesForContext ==
  /\ pc = "start"
  /\ fileContext' = readFilesForContext(changedFiles)
  /\ effects' = effects \o readEffects(changedFiles)
  /\ pc' = "context"
  /\ UNCHANGED <<changedFiles, review, llmChoice, parsedReview, validatedReview,
                 callVars, extractorVars, llmVars, gitlabVars>>

\* review-orchestrator.js lines 67-69 and 106-108: the LLM process prints its
\* answer
RunCodeReview ==
  /\ pc = "context"
  /\ review' \in ReviewPool
  /\ pc' = "reviewed"
  /\ UNCHANGED <<changedFiles, fileContext, llmChoice, parsedReview,
                 validatedReview, callVars, otherVars>>

\* review-orchestrator.js lines 72 and 113
ParseReviewResponse ==
  /\ pc = "reviewed"
  /\ parsedReview' = parseReviewResponse(review, llmChoice)
  /\ pc' = IF parsedReview'.kind = "error" THEN "failed" ELSE "parsed"
  /\ UNCHANGED <<changedFiles, fileContext, review, llmChoice, validatedReview,
                 callVars, otherVars>>

\* review-orchestrator.js lines 73 and 114
ValidateAndFixLineNumbers ==
  /\ pc = "parsed"
  /\ validatedReview' = validateAndFixLineNumbers(parsedReview.value, fileContext)
  /\ pc' = IF validatedReview'.kind = "throw" THEN "failed" ELSE "validated"
  /\ UNCHANGED <<changedFiles, fileContext, review, llmChoice, parsedReview,
                 callVars, otherVars>>

Next ==
  \/ ReadFilesForContext
  \/ RunCodeReview
  \/ ParseReviewResponse
  \/ ValidateAndFixLineNumbers

Spec == Init /\ [][Next]_vars

-----------------------------------------------------------------------------
(* The review run with the prose fallback: the response extractor is the    *)
(* parseReviewResponse that handles Ollama                                   *)

\* the sets of changed files a run with a prose answer starts from
ProseChangedFilesPool ==
  { << >>,
    <<ChangedFile(<<"a",".","j","s">>, <<"r","e","t","r","y","(",")",";",NL,"}">>, TRUE)>>,
    <<ChangedFile(<<"a",".","j","s">>, <<"r","e","t","r","y","(",")",";",NL,"}">>, TRUE),
      ChangedFile(<<"R","E","A","D","M","E",".","m","d">>, <<"#"," ","R","e","t","r","y",NL,"U","s","a","g","e"," ","n","o","t","e","s">>, TRUE)>>,
    <<ChangedFile(<<"R","E","A","D","M","E",".","m","d">>, <<"#"," ","R","e","t","r","y",NL,"U","s","a","g","e"," ","n","o","t","e","s">>, TRUE),
      ChangedFile(<<"a",".","j","s">>, <<"r","e","t","r","y","(",")",";",NL,"}">>, TRUE)>> }

ProseLlmChoices == {<<"o","l","l","a","m","a">>, <<"O","l","l","a","m","a">>, <<"g","e","m","i","n","i">>}

\* what an LLM that does not follow the JSON contract may print
ProsePool ==
  { << >>,
    <<" "," ",NL>>,
    <<"L","o","o","k","s"," ","g","o","o","d",".">>,
    <<"#","#"," ","S","u","m","m","a","r","y",NL,"T","h","e"," ","c","o","d","e"," ","i","s"," ","f","i","n","e",".",NL,NL,"#","#"," ","I","s","s","u","e","s",NL,"-"," ","R","E","A","D","M","E",".","m","d"," ","l","i","n","e"," ","2",":"," ","t","h","e"," ","u","s","a","g","e"," ","n","o","t","e","s"," ","a","r","e"," ","t","h","i","n">>,
    <<"I","n"," ","t","h","e"," ","f","i","l","e"," ","a",".","j","s",":","1"," ",BT,"r","e","t","r","y","(",")",";",BT," ","h","a","s"," ","n","o"," ","l","i","m","i","t">>,
    <<BT,BT,BT,NL,"s","e","e"," ","R","E","A","D","M","E",".","m","d",NL,BT,BT,BT,NL,"N","o","t","h","i","n","g"," ","t","o"," ","r","e","p","o","r","t",".">>,
    <<"*","*","O","v","e","r","v","i","e","w","*","*",NL,"S","m","a","l","l"," ","c","h","a","n","g","e",".",NL,"Y","o","u"," ","s","h","o","u","l","d"," ","r","e","a","d"," ","c","o","n","f","i","g",".","j","s","o","n"," ","(","a"," ","f","i","l","e",")">>,
    <<"{",DQ,"s","u","m","m","a","r","y",DQ,":",DQ,"o","k",DQ,",",DQ,"c","o","m","m","e","n","t","s",DQ,":","[","]","}">> }

InitProse ==
  /\ pc = "start"
  /\ changedFiles \in ProseChangedFilesPool
  /\ llmChoice \in ProseLlmChoices
  /\ fileContext = << >>
  /\ review = << >>
  /\ parsedReview = Pending
  /\ validatedReview = Pending
  /\ comment = JNull
  /\ fileContent = << >>
  /\ codeSnippets = << >>
  /\ tried = << >>
  /\ outcome = Pending
  /\ othersIdle

\* review-orchestrator.js lines 67-69 and 106-108: the LLM process prints
\* prose
RunCodeReviewAsProse ==
  /\ pc = "context"
  /\ review' \in ProsePool
  /\ pc' = "reviewed"
  /\ UNCHANGED <<changedFiles, fileContext, llmChoice, parsedReview,
                 validatedReview, callVars, otherVars>>

\* review-orchestrator.js lines 72 and 113
ParseReviewResponseWithOllama ==
  /\ pc = "reviewed"
  /\ parsedReview' = parseReviewResponseWithOllama(review, llmChoice)
  /\ pc' = IF parsedReview'.kind = "error" THEN "failed" ELSE "parsed"
  /\ UNCHANGED <<changedFiles, fileContext, review, llmChoice, validatedReview,
                 callVars, otherVars>>

NextProse ==
  \/ ReadFilesForContext
  \/ RunCodeReviewAsProse
  \/ ParseReviewResponseWithOllama
  \/ ValidateAndFixLineNumbers

SpecProse == InitProse /\ [][NextProse]_vars

-----------------------------------------------------------------------------
(* The context blob alone: readFilesForContext over lists of files with    *)
(* distinct paths                                                          *)

ContextPaths == {<<"a",".","m","d">>, <<"b",".","j","s">>}

\* file texts: empty, blank lines at the ends and in the middle, and lines
\* that look like the header of a section
ContextContents ==
  { << >>,
    <<"x">>,
    <<NL>>,
    <<NL,NL,"x",NL>>,
    <<"a",NL,NL,"b">>,
    <<"i","n","t","r","o",NL,"-","-","-"," ","x"," ","-","-","-",NL,"r","e","s","t">>,
    <<"-","-","-"," ","b",".","j","s"," ","-","-","-",NL,"y">>,
    <<" ","-","-","-"," ","x"," ","-","-","-",NL,"-","-","-"," ","x"," ","-","-","-"," ","y">> }

\* a file that can be read, with any of the texts, or one that cannot
ContextFiles ==
  {ChangedFile(path, content, TRUE) : path \in ContextPaths, content \in ContextContents}
    \cup {ChangedFile(path, << >>, FALSE) : path \in ContextPaths}

MaxContextFiles == 2

ContextFilesPool ==
  {filePaths \in UNION {[1..n -> ContextFiles] : n \in 0..MaxContextFiles} :
     \A j, k \in 1..Len(filePaths) : j # k => filePaths[j].path # filePaths[k].path}

InitContext ==
  /\ pc = "start"
  /\ changedFiles \in ContextFilesPool
  /\ llmChoice = <<"c","l","a","u","d","e">>
  /\ fileContext = << >>
  /\ review = << >>
  /\ parsedReview = Pending
  /\ validatedReview = Pending
  /\ comment = JNull
  /\ fileContent = << >>
  /\ codeSnippets = << >>
  /\ tried = << >>
  /\ outcome = Pending
  /\ othersIdle

NextContext == ReadFilesForContext

SpecContext == InitContext /\ [][NextContext]_vars

-----------------------------------------------------------------------------
(* The snippet extractor: calls of extractCodeSnippet in one process, which  *)
(* share the two caches, and clearPatternCaches                              *)

\* the review run and the line matcher stand still
reviewIdle ==
  /\ pc = "idle"
  /\ changedFiles = << >>
  /\ review = << >>
  /\ llmChoice = << >>
  /\ fileContext = << >>
  /\ parsedReview = Pending
  /\ validatedReview = Pending
  /\ comment = JNull
  /\ fileContent = << >>
  /\ codeSnippets = << >>
  /\ tried = << >>
  /\ outcome = Pending

reviewVars == <<pc, runVars, callVars>>

Call(content, lineNumber, contextLines, name) ==
  [made |-> TRUE, fileContent |-> content, lineNumber |-> lineNumber,
   contextLines |-> contextLines, fileName |-> name]

\* a JavaScript file that declares a function, and one that calls it
DeclaringFile == <<"f","u","n","c","t","i","o","n"," ","f","o","o","(",")"," ","{",NL,NL," "," ","r","e","t","u","r","n"," ","1",";",NL,"}">>

CallingFile == <<"x"," ","="," ","f","o","o"," ","(","1",")",NL,NL,"y">>

\* a file whose first line opens and closes a block
BlockFile == <<"i","f"," ","(","a",")"," ","{"," ","b","(",")",";"," ","}",NL,"c","(",")",";",NL,"d","(",")",";",NL,"e","(",")",";",NL,"f","(",")",";">>

\* a file whose block closes on its last line
ClosingFile == <<"i","f"," ","(","a",")"," ","{",NL,"}">>

\* two files of three lines without a name, one of Python and one of PHP
PythonFile == <<"d","e","f"," ","b","a","r","(","x",")",":",NL,NL," "," "," "," ","r","e","t","u","r","n"," ","x">>

PhpFile == <<"$","a"," ","="," ","'","b","'",";",NL,NL,"$","c"," ","="," ","2",";">>

\* the calls a process may make: targets that are blank or hold code, radius
\* 0 to 3, a line beyond the file
CallPool ==
  { Call(DeclaringFile, 2, 1, <<"a",".","j","s">>),
    Call(DeclaringFile, 1, 3, <<"a",".","j","s">>),
    Call(DeclaringFile, 9, 3, <<"a",".","j","s">>),
    Call(CallingFile, 2, 1, <<"b",".","j","s">>),
    Call(CallingFile, 1, 0, <<"b",".","j","s">>),
    Call(BlockFile, 1, 3, << >>),
    Call(BlockFile, 2, 0, << >>),
    Call(ClosingFile, 1, 0, << >>),
    Call(PythonFile, 2, 1, << >>),
    Call(PhpFile, 2, 1, << >>) }

\* the number of lines of the file of the last call
lineCountOfLast == Len(split(call.fileContent, NL))

moduleCaches == [analysis |-> fileAnalysisCache, patterns |-> patternCache]

\* extractCodeSnippet(fileContent, lineNumber, contextLines, fileName)
ExtractCodeSnippetWith(c) ==
  /\ returned' = extractCodeSnippet(moduleCaches, c.fileContent, c.lineNumber, c.contextLines,
                                    c.fileName)
  /\ patternCache' = cachesAfter(moduleCaches, c.fileContent, c.lineNumber, c.contextLines,
                                 c.fileName).patterns
  /\ fileAnalysisCache' = cachesAfter(moduleCaches, c.fileContent, c.lineNumber, c.contextLines,
                                      c.fileName).analysis
  /\ call' = c
  /\ UNCHANGED <<reviewVars, llmVars, effects, gitlabVars>>

ExtractCodeSnippet == \E c \in CallPool : ExtractCodeSnippetWith(c)

\* clearPatternCaches()
ClearPatternCaches ==
  /\ patternCache' = EmptyMap
  /\ fileAnalysisCache' = EmptyMap
  /\ UNCHANGED <<call, returned, reviewVars, llmVars, effects, gitlabVars>>

InitSnippet == reviewIdle /\ othersIdle

NextSnippet ==
  \/ ExtractCodeSnippet
  \/ ClearPatternCaches

SpecSnippet == InitSnippet /\ [][NextSnippet]_vars

-----------------------------------------------------------------------------
(* A long-lived process that extracts snippets from ever longer files        *)

\* the number of line counts the process goes through
MaxGrowth == 101

\* a file of so many blank lines
blankLines(lineCount) == [k \in 1..(lineCount - 1) |-> NL]

\* extractCodeSnippet for the first line of f.js, which has as many lines as
\* at the call before or one more
ExtractFromLongerFile ==
  \E lineCount \in {lineCountOfLast, lineCountOfLast + 1} :
    /\ lineCount \in 2..(MaxGrowth + 1)
    /\ ExtractCodeSnippetWith(Call(blankLines(lineCount), 1, 0, <<"f",".","j","s">>))

NextSnippetGrowth ==
  \/ ExtractFromLongerFile
  \/ ClearPatternCaches

SpecSnippetGrowth == InitSnippet /\ [][NextSnippetGrowth]_vars

-----------------------------------------------------------------------------
(* One call of runCodeReview: the child process, its two streams, the timer  *)
(* and the promise the call returns                                         *)

\* the names runCodeReview may be called with; the last is no key of config.llms
LlmNamePool == {<<"c","l","a","u","d","e">>, <<"C","l","a","u","d","e">>, <<"o","l","l","a","m","a">>, <<"g","p","t","4">>}

\* the 'data' events of the two streams the model goes up to
MaxDataEvents == 2

\* what the streams of the process may deliver in one 'data' event
StdoutChunks == {<<"o", "k">>, <<LeadByte>>, <<TrailByte>>, <<LeadByte, TrailByte>>}

StderrChunks == {<<"n", "o">>}

\* the exit codes 'close' may report: null after a signal
ExitCodes == {JInt(0), JInt(1), JNull}

\* error.message of an 'error' event
ErrorMessages == {<<"s","p","a","w","n"," ","E","N","O","E","N","T">>}

\* an event as a handler receives it
Event(type, value) == [type |-> type, value |-> value]

isData(event) == event.type \in {"stdout", "stderr"}

Spawned == [spawned |-> TRUE, kills |-> 0, closed |-> FALSE, failed |-> FALSE]

\* runCodeReview(llmName, codeDiff, fullFileContext) up to the return of the
\* promise: lines 19-45 and 73-76
CallRunCodeReview ==
  \E name \in LlmNamePool :
    /\ promise = NoPromise
    /\ llmName' = name
    /\ IF isSupported(name)
       THEN /\ llmProcess' = Spawned
            /\ timeout' = "armed"
            /\ promise' = PendingPromise
       ELSE /\ promise' = Rejected(unsupportedError(name))
            /\ UNCHANGED <<llmProcess, timeout>>
    /\ UNCHANGED <<stdout, stderr, emitted, reviewVars, extractorVars, effects, gitlabVars>>

\* llmProcess.stdout.on('data', ...): lines 47-51
StdoutData ==
  \E data \in StdoutChunks :
    /\ llmProcess.spawned /\ ~llmProcess.closed
    /\ Len(SelectSeq(emitted, isData)) < MaxDataEvents
    /\ stdout' = stdout \o bufferToString(data)
    /\ emitted' = Append(emitted, Event("stdout", data))
    /\ UNCHANGED <<llmName, llmProcess, timeout, promise, stderr, reviewVars, extractorVars, effects, gitlabVars>>

\* llmProcess.stderr.on('data', ...): lines 53-55
StderrData ==
  \E data \in StderrChunks :
    /\ llmProcess.spawned /\ ~llmProcess.closed
    /\ Len(SelectSeq(emitted, isData)) < MaxDataEvents
    /\ stderr' = stderr \o bufferToString(data)
    /\ emitted' = Append(emitted, Event("stderr", data))
    /\ UNCHANGED <<llmName, llmProcess, timeout, promise, stdout, reviewVars, extractorVars, effects, gitlabVars>>

\* llmProcess.on('close', ...): lines 57-65
Close ==
  \E code \in ExitCodes :
    /\ llmProcess.spawned /\ ~llmProcess.closed
    /\ llmProcess' = [llmProcess EXCEPT !.closed = TRUE]
    /\ timeout' = cleared(timeout)
    /\ promise' = settled(promise,
                          IF code = JInt(0) THEN Fulfilled(stdout)
                          ELSE Rejected(executionError(llmName, code, stderr)))
    /\ emitted' = Append(emitted, Event("close", code))
    /\ UNCHANGED <<llmName, stdout, stderr, reviewVars, extractorVars, effects, gitlabVars>>

\* llmProcess.on('error', ...): lines 67-71
Error ==
  \E message \in ErrorMessages :
    /\ llmProcess.spawned /\ ~llmProcess.closed /\ ~llmProcess.failed
    /\ llmProcess' = [llmProcess EXCEPT !.failed = TRUE]
    /\ timeout' = cleared(timeout)
    /\ promise' = settled(promise, Rejected(startError(llmName, message)))
    /\ emitted' = Append(emitted, Event("error", message))
    /\ UNCHANGED <<llmName, stdout, stderr, reviewVars, extractorVars, effects, gitlabVars>>

\* the callback of setTimeout: lines 42-45
Timeout ==
  /\ timeout = "armed"
  /\ timeout' = "fired"
  /\ llmProcess' = [llmProcess EXCEPT !.kills = @ + 1]
  /\ promise' = settled(promise, Rejected(timeoutError(llmName, llmConfigOf(llmName))))
  /\ emitted' = Append(emitted, Event("timeout", << >>))
  /\ UNCHANGED <<llmName, stdout, stderr, reviewVars, extractorVars, effects, gitlabVars>>

InitLlm == reviewIdle /\ othersIdle

NextLlm ==
  \/ CallRunCodeReview
  \/ StdoutData
  \/ StderrData
  \/ Close
  \/ Error
  \/ Timeout

SpecLlm == InitLlm /\ [][NextLlm]_vars

\* the event loop of Node runs the callback of a timer that is due and has
\* not been cleared
SpecLlmLive == SpecLlm /\ WF_vars(Timeout)

-----------------------------------------------------------------------------
(* utils/file-handler.js: the temporary directory *)

\* os.tmpdir() of the machine
tmpdir == <<"/","t","m","p">>

\* config.js line 82
tempDirPrefix == <<"g","i","t","l","a","b","-","r","e","v","i","e","w","-">>

\* path.join of two segments that need no normalisation
pathJoin(directory, name) == directory \o <<"/">> \o name

\* file-handler.js lines 7 and 13: the prefix of every temporary directory
temporaryPrefix == pathJoin(tmpdir, tempDirPrefix)

\* file-handler.js lines 12-19: what cleanupDirectory does with its argument
cleanupDirectoryWherever(directory) ==
  IF Truthy(directory)
  THEN <<Effect("log", <<"C","l","e","a","n","i","n","g"," ","u","p"," ","t","e","m","p","o","r","a","r","y"," ","d","i","r","e","c","t","o","r","y",":"," ">> \o directory.s),
         Effect("rm", directory.s)>>
  ELSE << >>

cleanupDirectory(directory) ==
  IF Truthy(directory) /\ startsWith(directory.s, temporaryPrefix)
  THEN <<Effect("log", <<"C","l","e","a","n","i","n","g"," ","u","p"," ","t","e","m","p","o","r","a","r","y"," ","d","i","r","e","c","t","o","r","y",":"," ">> \o directory.s),
         Effect("rm", directory.s)>>
  ELSE IF Truthy(directory)
       THEN <<Effect("warn", <<"S","k","i","p","p","i","n","g"," ","c","l","e","a","n","u","p"," ","o","f"," ","n","o","n","-","t","e","m","p","o","r","a","r","y"," ","d","i","r","e","c","t","o","r","y",":"," ">> \o directory.s)>>
       ELSE << >>

\* the arguments of the calls: none, the empty path, temporary directories,
\* other directories, and paths that are nearly the prefix
DirectoryPool ==
  { JUndef, JNull, JStr(<< >>),
    JStr(<<"/","t","m","p","/","g","i","t","l","a","b","-","r","e","v","i","e","w","-","a","b","c","1","2","3">>),
    JStr(<<"/","t","m","p","/","g","i","t","l","a","b","-","r","e","v","i","e","w","-">>),
    JStr(<<"/","t","m","p","/","g","i","t","l","a","b","-","r","e","v","i","e","w","-","x","/",".",".","/",".",".","/","h","o","m","e">>),
    JStr(<<"/","s","o","m","e","/","o","t","h","e","r","/","d","i","r","e","c","t","o","r","y">>),
    JStr(<<"/","t","m","p","/","g","i","t","l","a","b","-","r","e","v","i","e","w">>),
    JStr(<<"/","t","m","p">>),
    JStr(<<"t","m","p","/","g","i","t","l","a","b","-","r","e","v","i","e","w","-","a","b","c","1","2","3">>),
    JStr(<<"/","h","o","m","e","/","t","m","p","/","g","i","t","l","a","b","-","r","e","v","i","e","w","-","a","b","c","1","2","3">>) }

\* the calls stop once this many effects are logged
MaxEffects == 4

CleanupDirectory ==
  /\ step = "idle"
  /\ Len(effects) < MaxEffects
  /\ \E path \in DirectoryPool :
       /\ directoryPath' = path
       /\ effects' = effects \o cleanupDirectory(path)
  /\ UNCHANGED <<step, discussions, createdDirectory, temporaryDirectory, thrown,
                 reviewVars, extractorVars, llmVars>>

InitCleanup == reviewIdle /\ othersIdle

NextCleanup == CleanupDirectory

SpecCleanup == InitCleanup /\ [][NextCleanup]_vars

-----------------------------------------------------------------------------
(* services/review-orchestrator.js: performGitLabReview *)

\* a discussion of the merge request, with the two fields the filter reads
Discussion(resolvable, resolved) == [resolvable |-> resolvable, resolved |-> resolved]

MaxDiscussions == 2

DiscussionsPool ==
  UNION {[1..n -> {Discussion(resolvable, resolved) : resolvable \in BOOLEAN, resolved \in BOOLEAN}] :
           n \in 0..MaxDiscussions}

\* api/gitlab.js lines 58-71: the filter of getUnresolvedDiscussions
isResolved(discussion) == discussion.resolvable /\ discussion.resolved

isUnresolved(discussion) == discussion.resolvable /\ ~discussion.resolved

getResolvedDiscussions(fetched) == SelectSeq(fetched, isResolved)

getUnresolvedDiscussions(fetched) == SelectSeq(fetched, isUnresolved)

\* fs.mkdtemp appends six characters of its choice to the prefix
MkdtempSuffixes == {<<"a","b","c","1","2","3">>, <<"x","7","G","q","2","k">>}

\* the provider of the run
GitLabLlmChoice == <<"c","l","a","u","d","e">>

\* the messages of the errors of the steps
ValidationErrors ==
  {<<"L","L","M"," ","c","h","o","i","c","e"," ","i","s"," ","r","e","q","u","i","r","e","d">>,
   <<"F","a","i","l","e","d"," ","t","o"," ","p","a","r","s","e"," ","G","i","t","L","a","b"," ","U","R","L",":"," ","I","n","v","a","l","i","d"," ","M","e","r","g","e"," ","R","e","q","u","e","s","t"," ","U","R","L"," ","f","o","r","m","a","t",".">>}

ApiError == <<"G","i","t","L","a","b"," ","A","P","I"," ","r","e","q","u","e","s","t"," ","f","a","i","l","e","d"," ","w","i","t","h"," ","s","t","a","t","u","s"," ","5","0","0",":"," ">>

UnresolvedError == <<"U","n","r","e","s","o","l","v","e","d"," ","d","i","s","c","u","s","s","i","o","n","s"," ","f","o","u","n","d">>

MkdtempError == <<"P","e","r","m","i","s","s","i","o","n"," ","d","e","n","i","e","d">>

CloneError == <<"F","a","i","l","e","d"," ","t","o"," ","c","l","o","n","e"," ","r","e","p","o","s","i","t","o","r","y",":"," ","C","o","m","m","a","n","d"," ","f","a","i","l","e","d">>

LlmErrors ==
  {executionError(GitLabLlmChoice, JInt(1), << >>),
   timeoutError(GitLabLlmChoice, llmConfigOf(GitLabLlmChoice))}

ParseError == <<"I","n","v","a","l","i","d"," ","J","S","O","N"," ","r","e","s","p","o","n","s","e"," ","f","r","o","m"," ","c","l","a","u","d","e"," ","C","L","I",".">>

OutputError == <<"F","a","i","l","e","d"," ","t","o"," ","p","o","s","t"," ","c","o","m","m","e","n","t">>

\* an error thrown inside the try block of lines 86-126 goes to the catch
\* block of line 127
throws(message) ==
  /\ thrown' = message
  /\ step' = "catch"

\* lines 88-94: the validations before any request
ValidateInputs ==
  /\ step = "validate"
  /\ \/ step' = "discussions" /\ UNCHANGED thrown
     \/ \E message \in ValidationErrors : throws(message)
  /\ UNCHANGED <<effects, discussions, createdDirectory, temporaryDirectory, directoryPath,
                 reviewVars, extractorVars, llmVars>>

\* lines 97 and 137-159: the request for the discussions fails, or some are
\* unresolved, or none is
CheckUnresolvedDiscussions ==
  /\ step = "discussions"
  /\ \/ /\ throws(ApiError)
        /\ effects' = effects \o <<Effect("fetch", <<"d","i","s","c","u","s","s","i","o","n","s">>)>>
     \/ /\ Len(getUnresolvedDiscussions(discussions)) > 0
        /\ effects' = effects \o
             <<Effect("fetch", <<"d","i","s","c","u","s","s","i","o","n","s">>),
               Effect("spinner", <<"F","o","u","n","d"," ","u","n","r","e","s","o","l","v","e","d"," ","d","i","s","c","u","s","s","i","o","n","s">>),
               Effect("log", <<"F","o","u","n","d"," ">> \o NatToString(Len(getUnresolvedDiscussions(discussions)))
                               \o <<" ","u","n","r","e","s","o","l","v","e","d"," ","d","i","s","c","u","s","s","i","o","n","(","s",")"," ","o","n"," ","t","h","i","s"," ","M","R",".">>)>>
        /\ throws(UnresolvedError)
     \/ /\ Len(getUnresolvedDiscussions(discussions)) = 0
        /\ effects' = effects \o <<Effect("fetch", <<"d","i","s","c","u","s","s","i","o","n","s">>),
                                   Effect("spinner", <<"N","o"," ","u","n","r","e","s","o","l","v","e","d"," ","d","i","s","c","u","s","s","i","o","n","s"," ","f","o","u","n","d">>)>>
        /\ step' = "details"
        /\ UNCHANGED thrown
  /\ UNCHANGED <<discussions, createdDirectory, temporaryDirectory, directoryPath,
                 reviewVars, extractorVars, llmVars>>

\* lines 100 and 161-183: the details of the merge request and the clone URL
SetupMergeRequestData ==
  /\ step = "details"
  /\ effects' = effects \o <<Effect("fetch", <<"d","e","t","a","i","l","s">>)>>
  /\ \/ step' = "mkdtemp" /\ UNCHANGED thrown
     \/ throws(ApiError)
  /\ UNCHANGED <<discussions, createdDirectory, temporaryDirectory, directoryPath,
                 reviewVars, extractorVars, llmVars>>

\* lines 186-187 and file-handler.js lines 6-10: setupRepository creates the
\* directory
CreateTemporaryDirectory ==
  /\ step = "mkdtemp"
  /\ \/ \E suffix \in MkdtempSuffixes :
          /\ createdDirectory' = JStr(temporaryPrefix \o suffix)
          /\ effects' = effects \o <<Effect("mkdtemp", temporaryPrefix \o suffix)>>
          /\ step' = "clone"
          /\ UNCHANGED thrown
     \/ /\ throws(MkdtempError)
        /\ UNCHANGED <<createdDirectory, effects>>
  /\ UNCHANGED <<discussions, temporaryDirectory, directoryPath,
                 reviewVars, extractorVars, llmVars>>

\* lines 189-193 and 103: the clone; only when it has succeeded does
\* setupRepository return, and performGitLabReview assign the directory
CloneRepository ==
  /\ step = "clone"
  /\ effects' = effects \o <<Effect("clone", createdDirectory.s)>>
  /\ \/ /\ temporaryDirectory' = createdDirectory
        /\ step' = "analyze"
        /\ UNCHANGED thrown
     \/ /\ throws(CloneError)
        /\ UNCHANGED temporaryDirectory
  /\ UNCHANGED <<discussions, createdDirectory, directoryPath,
                 reviewVars, extractorVars, llmVars>>

\* lines 104 and 196-211: the diff, the changed files and the context blob
AnalyzeRepository ==
  /\ step = "analyze"
  /\ effects' = effects \o <<Effect("fetch", <<"d","i","f","f">>)>>
  /\ \/ step' = "review" /\ UNCHANGED thrown
     \/ throws(ApiError)
  /\ UNCHANGED <<discussions, createdDirectory, temporaryDirectory, directoryPath,
                 reviewVars, extractorVars, llmVars>>

\* lines 107-111: the LLM is run; its promise is fulfilled or rejected
AwaitCodeReview ==
  /\ step = "review"
  /\ effects' = effects \o <<Effect("llm", GitLabLlmChoice)>>
  /\ \/ step' = "process" /\ UNCHANGED thrown
     \/ \E message \in LlmErrors : throws(message)
  /\ UNCHANGED <<discussions, createdDirectory, temporaryDirectory, directoryPath,
                 reviewVars, extractorVars, llmVars>>

\* lines 113-114: the response is parsed and its line numbers reconciled
ProcessReview ==
  /\ step = "process"
  /\ \/ step' = "output" /\ UNCHANGED thrown
     \/ throws(ParseError)
  /\ UNCHANGED <<effects, discussions, createdDirectory, temporaryDirectory, directoryPath,
                 reviewVars, extractorVars, llmVars>>

\* line 126: the output handler; after it the try block is left normally
HandleOutput ==
  /\ step = "output"
  /\ effects' = effects \o <<Effect("output", GitLabLlmChoice)>>
  /\ \/ step' = "finally" /\ UNCHANGED thrown
     \/ throws(OutputError)
  /\ UNCHANGED <<discussions, createdDirectory, temporaryDirectory, directoryPath,
                 reviewVars, extractorVars, llmVars>>

\* lines 127-130: the catch block prints the message and ends the process;
\* process.exit does not return, so that the finally block is not run
CatchError ==
  /\ step = "catch"
  /\ effects' = effects \o <<Effect("error", thrown), Effect("exit", <<"1">>)>>
  /\ step' = "exited"
  /\ UNCHANGED <<discussions, createdDirectory, temporaryDirectory, thrown, directoryPath,
                 reviewVars, extractorVars, llmVars>>

\* lines 130-134: the finally block after a try block that has not thrown
FinallyCleanup ==
  /\ step = "finally"
  /\ IF Truthy(temporaryDirectory)
     THEN /\ directoryPath' = temporaryDirectory
          /\ effects' = effects \o cleanupDirectory(temporaryDirectory)
     ELSE UNCHANGED <<directoryPath, effects>>
  /\ step' = "returned"
  /\ UNCHANGED <<discussions, createdDirectory, temporaryDirectory, thrown,
                 reviewVars, extractorVars, llmVars>>

InitGitLab ==
  /\ reviewIdle
  /\ extractorIdle
  /\ llmIdle
  /\ effects = << >>
  /\ step = "validate"
  /\ discussions \in DiscussionsPool
  /\ createdDirectory = JNull
  /\ temporaryDirectory = JNull
  /\ thrown = << >>
  /\ directoryPath = JUndef

NextGitLab ==
  \/ ValidateInputs
  \/ CheckUnresolvedDiscussions
  \/ SetupMergeRequestData
  \/ CreateTemporaryDirectory
  \/ CloneRepository
  \/ AnalyzeRepository
  \/ AwaitCodeReview
  \/ ProcessReview
  \/ HandleOutput
  \/ CatchError
  \/ FinallyCleanup

SpecGitLab == InitGitLab /\ [][NextGitLab]_vars

\* every step of the run is a request, a process or a block of code that
\* ends: whenever the run can go on, it does
SpecGitLabLive == SpecGitLab /\ WF_vars(NextGitLab)

-----------------------------------------------------------------------------
(* Claims about the review run, under Spec *)

hasParsed == parsedReview.kind = "value"

hasValidated == pc = "validated" /\ validatedReview.kind = "value"

hasKey(v, key) == v.t = "object" /\ \E k \in 1..Len(v.keys) : v.keys[k] = key

\* an object with a summary and a comments sequence whose elements each have
\* file, line and comment
isStructuredReview(v) ==
  /\ hasKey(v, <<"s","u","m","m","a","r","y">>)
  /\ GetProp(v, <<"c","o","m","m","e","n","t","s">>).t = "array"
  /\ \A k \in 1..Len(GetProp(v, <<"c","o","m","m","e","n","t","s">>).kids) :
       /\ hasKey(GetProp(v, <<"c","o","m","m","e","n","t","s">>).kids[k], <<"f","i","l","e">>)
       /\ hasKey(GetProp(v, <<"c","o","m","m","e","n","t","s">>).kids[k], <<"l","i","n","e">>)
       /\ hasKey(GetProp(v, <<"c","o","m","m","e","n","t","s">>).kids[k], <<"c","o","m","m","e","n","t">>)

\* the comments of a review, none when it has no comments sequence
commentsOf(v) ==
  IF GetProp(v, <<"c","o","m","m","e","n","t","s">>).t = "array" THEN GetProp(v, <<"c","o","m","m","e","n","t","s">>).kids
  ELSE << >>

\* the file of a comment is a key of the mapping parsed from the context blob
fileIsIndexed(c) ==
  /\ GetProp(c, <<"f","i","l","e">>).t = "string"
  /\ MapHas(parseFileContents(fileContext), GetProp(c, <<"f","i","l","e">>).s)

\* the number of lines of the indexed text of a comment's file
numberOfLines(c) ==
  Len(split(MapGet(parseFileContents(fileContext), GetProp(c, <<"f","i","l","e">>).s), NL))

\* C1 - bounds invariant: every comment of the review that
\* validateAndFixLineNumbers returns has an integer line between 1 and the
\* number of lines of the indexed text of its file, whatever the parsed review
\* and the context blob (an empty blob included).
C1_BoundsInvariant ==
  hasValidated =>
    \A k \in 1..Len(commentsOf(validatedReview.value)) :
      LET c == commentsOf(validatedReview.value)[k]
      IN  /\ fileIsIndexed(c)
          /\ lineOf(c).t = "number"
          /\ lineOf(c).d = 1
          /\ lineOf(c).n >= 1
          /\ lineOf(c).n <= numberOfLines(c)

\* C2 - drop on missing file: no comment of the review that
\* validateAndFixLineNumbers returns names a file that is no key of the mapping
\* parsed from the context blob (an empty blob included), and a parsed review
\* whose comments all have a text is reconciled without an error.
C2_DropOnMissingFile ==
  /\ hasValidated =>
       \A k \in 1..Len(commentsOf(validatedReview.value)) :
         fileIsIndexed(commentsOf(validatedReview.value)[k])
  /\ (/\ pc \in {"validated", "failed"}
      /\ hasParsed
      /\ isStructuredReview(parsedReview.value)
      /\ \A k \in 1..Len(commentsOf(parsedReview.value)) :
           GetProp(commentsOf(parsedReview.value)[k], <<"c","o","m","m","e","n","t">>).t = "string")
       => pc = "validated"

\* C9 - parseReviewResponse either returns a structured review (an object with
\* a summary and a comments sequence whose elements each have file, line and
\* comment) or fails with the Invalid JSON response error.
C9_StructuredOrError ==
  pc \in {"parsed", "validated", "failed"} =>
    \/ /\ parsedReview.kind = "value"
       /\ isStructuredReview(parsedReview.value)
    \/ /\ parsedReview.kind = "error"
       /\ parsedReview = InvalidJsonResponse(llmChoice)

\* C10 - reconciliation never raises: for a structured review that
\* parseReviewResponse returned, validateAndFixLineNumbers returns a review
\* with the same summary and a comments sequence.
C10_ReconciliationNeverRaises ==
  (/\ pc \in {"validated", "failed"}
   /\ hasParsed
   /\ isStructuredReview(parsedReview.value))
    => /\ validatedReview.kind = "value"
       /\ GetProp(validatedReview.value, <<"s","u","m","m","a","r","y">>)
            = GetProp(parsedReview.value, <<"s","u","m","m","a","r","y">>)
       /\ GetProp(validatedReview.value, <<"c","o","m","m","e","n","t","s">>).t = "array"

-----------------------------------------------------------------------------
(* What the claims about the line matcher speak of *)

fileLines == fileLinesOf(fileContent)

commentText == GetProp(comment, <<"c","o","m","m","e","n","t">>).s

claimedLine == lineOf(comment)

hasReturned == pc = "returned" /\ GetProp(comment, <<"c","o","m","m","e","n","t">>).t = "string"

returnedComment == hasReturned /\ outcome.kind = "value"

returnedBy(method) == returnedComment /\ methodOf(outcome.value) = method

returnedNull == hasReturned /\ outcome.kind = "null"

\* the lines whose trimmed text the comment quotes between backticks
quotedLines ==
  {L \in 1..Len(fileLines) : commentText = QuoteComment(trim(fileLines[L]))}

\* the lines that contain a text
linesContaining(text) == {k \in 1..Len(fileLines) : includes(fileLines[k], text)}

\* a snippet passes the exact test on some line
matchesExactly(snippet) ==
  \E k \in 1..Len(fileLines) : exactLineTest(snippet, fileLines[k])

\* a snippet is more than 0.8 similar to some non-blank line
matchesFuzzily(snippet) ==
  \E k \in 1..Len(fileLines) :
    /\ trim(fileLines[k]) # << >>
    /\ RatLt(Rat(8, 10), calculateSimilarity(snippet, fileLines[k]))

snippetsOf(text) == extractCodeSnippetsFromComment(text)

noSnippetMatches ==
  \A i \in 1..Len(snippetsOf(commentText)) :
    /\ ~matchesExactly(snippetsOf(commentText)[i])
    /\ ~matchesFuzzily(snippetsOf(commentText)[i])

claimedLineIsBlank ==
  /\ claimedLine.t = "number" /\ claimedLine.d = 1
  /\ claimedLine.n \in 1..Len(fileLines)
  /\ trim(fileLines[claimedLine.n]) = << >>

claimedLineHasText ==
  /\ claimedLine.t = "number" /\ claimedLine.d = 1
  /\ claimedLine.n \in 1..Len(fileLines)
  /\ trim(fileLines[claimedLine.n]) # << >>

\* how many of the keywords a line contains, letter case aside
keywordsIn(keywords, line) ==
  Cardinality({k \in 1..Len(keywords) :
                 includes(toLowerCase(line), toLowerCase(keywords[k]))})

\* some non-blank line contains more than 60% of the keywords of the comment
keywordsLocateALine ==
  LET keywords == extractKeywords(commentText)
  IN  \E k \in 1..Len(fileLines) :
        /\ trim(fileLines[k]) # << >>
        /\ 10 * keywordsIn(keywords, fileLines[k]) > 6 * Len(keywords)

isScenarioA ==
  /\ comment = ScenarioACall
  /\ Len(fileLines) >= ScenarioLine
  /\ fileLines[ScenarioLine] = ScenarioTarget
  /\ \A k \in 1..(ScenarioLine - 1) : ~exactLineTest(<<"3">>, fileLines[k])

isScenarioD ==
  /\ claimedLineIsBlank
  /\ noSnippetMatches
  /\ Len(extractKeywords(commentText)) \in 1..3

-----------------------------------------------------------------------------
(* Claims about the line matcher, under SpecResolve *)

\* C3 (as stated) - Scenario A: with "if (retries == 3) {" at line 42 and no
\* earlier line that has 3 next to a comparison operator or a parenthesis, the
\* comment claiming line 1 with the text "The retry limit [3 in backticks]
\* should be configurable" resolves to line 42 by exact_match, whatever line 1
\* holds.
C3_ScenarioA ==
  (pc = "returned" /\ isScenarioA) =>
    /\ outcome.kind = "value"
    /\ lineOf(outcome.value) = JInt(ScenarioLine)
    /\ methodOf(outcome.value) = ExactMatch

\* C4 (as stated) - a comment that quotes the trimmed text of line L between
\* backticks resolves to line L by exact_match with confidence 1, whatever line
\* it claims.
C4_AsStated ==
  hasReturned =>
    \A L \in quotedLines :
      /\ outcome.kind = "value"
      /\ lineOf(outcome.value) = JInt(L)
      /\ methodOf(outcome.value) = ExactMatch
      /\ RatEq(confidenceOf(outcome.value), One)

\* C4 (amended) - a comment whose first backtick quote is the trimmed text s of
\* line L, where s has at least two characters and is not all digits, resolves
\* by exact_match with confidence 1 to the first line of the file that contains
\* s (line L when no earlier line contains s), whatever line it claims.  A
\* quote of fewer than two characters is no snippet, and the comment then
\* never resolves by exact_match on that quote.
C4_QuotedLineResolves ==
  hasReturned =>
    \A L \in quotedLines :
      LET s == trim(fileLines[L])
      IN  /\ (Len(s) >= 2 /\ ~isPureNumber(s)) =>
                /\ outcome.kind = "value"
                /\ methodOf(outcome.value) = ExactMatch
                /\ RatEq(confidenceOf(outcome.value), One)
                /\ lineOf(outcome.value) = JInt(SetMin(linesContaining(s)))
                /\ GetProp(outcome.value, <<"_","o","r","i","g","i","n","a","l","L","i","n","e">>) = claimedLine
                /\ (linesContaining(s) = {L} => lineOf(outcome.value) = JInt(L))
          /\ Len(s) < 2 => ~returnedBy(ExactMatch)

\* a quoted line is found from a claim that points at another line with text
C4_Witness ==
  /\ returnedBy(ExactMatch)
  /\ \E L \in quotedLines :
       /\ Len(trim(fileLines[L])) >= 2
       /\ lineOf(outcome.value) = JInt(L)
       /\ claimedLine # JInt(L)
       /\ claimedLineHasText

\* C5 - a fuzzy_match is returned only when no snippet of the comment matches
\* any line exactly, and whenever some snippet matches exactly the result is an
\* exact_match, even when an earlier snippet is more than 0.8 similar to a line.
C5_ExactBeforeFuzzy ==
  hasReturned =>
    /\ returnedBy(FuzzyMatch) =>
         \A i \in 1..Len(codeSnippets) : ~matchesExactly(codeSnippets[i])
    /\ (\E i \in 1..Len(codeSnippets) : matchesExactly(codeSnippets[i])) =>
         /\ returnedBy(ExactMatch)
         /\ matchesExactly(GetProp(outcome.value, <<"_","m","a","t","c","h","e","d","C","o","d","e">>).s)
         /\ exactLineTest(GetProp(outcome.value, <<"_","m","a","t","c","h","e","d","C","o","d","e">>).s,
                          fileLines[lineOf(outcome.value).n])

\* an exact match of a later snippet is returned although the first snippet is
\* more than 0.8 similar to a line and matches none exactly
C5_Witness ==
  /\ returnedBy(ExactMatch)
  /\ Len(codeSnippets) >= 2
  /\ ~matchesExactly(codeSnippets[1])
  /\ matchesFuzzily(codeSnippets[1])

\* C6 (as stated) - exact_match has confidence 1, fuzzy_match a confidence
\* strictly between 0.8 and 1, keyword_match one above 0.6 and below every
\* fuzzy_match confidence, original_line_kept exactly 0.5.
C6_AsStated ==
  returnedComment =>
    LET c == confidenceOf(outcome.value)
    IN  /\ returnedBy(ExactMatch) => RatEq(c, One)
        /\ returnedBy(FuzzyMatch) => RatLt(Rat(8, 10), c) /\ RatLt(c, One)
        /\ returnedBy(KeywordMatch) => RatLt(Rat(6, 10), c) /\ ~RatLt(Rat(8, 10), c)
        /\ returnedBy(OriginalLineKept) => RatEq(c, Rat(1, 2))

\* C6 (amended) - exact_match has confidence 1, fuzzy_match a confidence above
\* 0.8 and at most 1, keyword_match one above 0.6 and at most 0.8 (so below
\* every fuzzy_match confidence), original_line_kept exactly 0.5; every result
\* carries one of these four methods.
C6_ConfidenceByMethod ==
  returnedComment =>
    LET c == confidenceOf(outcome.value)
    IN  /\ methodOf(outcome.value) \in
             {ExactMatch, FuzzyMatch, KeywordMatch, OriginalLineKept}
        /\ returnedBy(ExactMatch) => RatEq(c, One)
        /\ returnedBy(FuzzyMatch) => RatLt(Rat(8, 10), c) /\ ~RatLt(One, c)
        /\ returnedBy(KeywordMatch) => RatLt(Rat(6, 10), c) /\ ~RatLt(Rat(8, 10), c)
        /\ returnedBy(OriginalLineKept) => RatEq(c, Rat(1, 2))

\* a fuzzy_match of confidence 1
C6_Witness ==
  /\ returnedBy(FuzzyMatch)
  /\ RatEq(confidenceOf(outcome.value), One)

\* C7 (as stated) - original_line_kept is returned only when exact, fuzzy and
\* keyword matching have all failed, and the claimed line is in range and not
\* blank.
C7_AsStated ==
  returnedBy(OriginalLineKept) =>
    /\ noSnippetMatches
    /\ ~keywordsLocateALine
    /\ claimedLineHasText

\* C7 (amended) - original_line_kept is returned only when exact and fuzzy
\* matching have both failed and the claimed line is in range and not blank;
\* keyword matching has not been tried then (it runs only after the claimed
\* line has been rejected), and the line returned is the claimed one.
C7_OriginalLineAfterExactAndFuzzy ==
  returnedBy(OriginalLineKept) =>
    /\ tried = <<"exact", "fuzzy", "original">>
    /\ noSnippetMatches
    /\ claimedLineHasText
    /\ lineOf(outcome.value) = claimedLine

\* the claimed line is kept although the keywords of the comment locate a line
C7_Witness ==
  /\ returnedBy(OriginalLineKept)
  /\ keywordsLocateALine

\* C8 (as stated) - Scenario D: a comment that claims a blank line, has no
\* snippet matching any line exactly or above 0.8, and yields one to three
\* keywords, resolves to null.
C8_AsStated ==
  (hasReturned /\ isScenarioD) => returnedNull

\* C8 (amended) - Scenario D: such a comment resolves to null exactly when no
\* non-blank line contains more than 60% of its keywords (all of one or two
\* keywords, two of three); otherwise it resolves by keyword_match to a
\* non-blank line that does.
C8_ScenarioD ==
  (hasReturned /\ isScenarioD) =>
    /\ returnedNull <=> ~keywordsLocateALine
    /\ keywordsLocateALine =>
         /\ returnedBy(KeywordMatch)
         /\ lineOf(outcome.value).n \in 1..Len(fileLines)
         /\ trim(fileLines[lineOf(outcome.value).n]) # << >>
         /\ 10 * keywordsIn(extractKeywords(commentText),
                            fileLines[lineOf(outcome.value).n])
              > 6 * Len(extractKeywords(commentText))

\* Scenario D ends in a keyword_match
C8_Witness ==
  /\ hasReturned
  /\ isScenarioD
  /\ returnedBy(KeywordMatch)

-----------------------------------------------------------------------------
(* Claims about the fuzzy and keyword steps, under SpecResolve *)

nonBlankLines == {k \in 1..Len(fileLines) : trim(fileLines[k]) # << >>}

similarity(i, k) == calculateSimilarity(codeSnippets[i], fileLines[k])

noSnippetMatchesExactly ==
  \A i \in 1..Len(codeSnippets) : ~matchesExactly(codeSnippets[i])

matchedCodeOf(c) == GetProp(c, <<"_","m","a","t","c","h","e","d","C","o","d","e">>).s

\* the first of the non-blank lines most similar to snippet i
mostSimilarLine(i) ==
  SetMin({k \in nonBlankLines :
            \A j \in nonBlankLines : ~RatLt(similarity(i, k), similarity(i, j))})

keywordStepTried ==
  /\ hasReturned
  /\ tried = <<"exact", "fuzzy", "original", "keyword">>
  /\ Len(extractKeywords(commentText)) >= 1

\* how many of the keywords line k contains
keywordCount(keywords, k) == keywordsIn(keywords, fileLines[k])

\* the highest number of keywords a non-blank line contains
bestKeywordCount(keywords) ==
  SetMax({keywordCount(keywords, k) : k \in nonBlankLines} \cup {0})

\* the first of the non-blank lines that contain the most keywords
bestKeywordLine(keywords, best) ==
  SetMin({k \in nonBlankLines : keywordCount(keywords, k) = best})

\* a keyword_match on the first best line, with confidence min(0.8, fraction)
isKeywordMatchOnBest(keywords, best) ==
  /\ returnedBy(KeywordMatch)
  /\ lineOf(outcome.value) = JInt(bestKeywordLine(keywords, best))
  /\ GetProp(outcome.value, <<"_","o","r","i","g","i","n","a","l","L","i","n","e">>) = claimedLine
  /\ RatEq(confidenceOf(outcome.value), RatMin(Rat(8, 10), Rat(best, Len(keywords))))

acceptedAboveHalf(keywords, best) ==
  /\ 2 * best > Len(keywords) => isKeywordMatchOnBest(keywords, best)
  /\ returnedNull => ~(2 * best > Len(keywords))

acceptedAboveSixTenths(keywords, best) ==
  /\ 10 * best > 6 * Len(keywords) => isKeywordMatchOnBest(keywords, best)
  /\ ~(10 * best > 6 * Len(keywords)) => returnedNull

\* C13 (as stated) - when the exact, fuzzy and original-line steps have failed
\* and the comment has a keyword, the result is a keyword_match on the
\* best-scoring non-blank line whenever that line contains more than half of
\* the keywords, with confidence min(0.8, fraction), and null only when no line
\* contains more than half of them.
C13_AsStated ==
  keywordStepTried =>
    acceptedAboveHalf(extractKeywords(commentText),
                      bestKeywordCount(extractKeywords(commentText)))

\* C13 (amended) - when the exact, fuzzy and original-line steps have failed
\* and the comment has a keyword, the result is a keyword_match on the first
\* best-scoring non-blank line exactly when that line contains more than 60% of
\* the keywords, with confidence min(0.8, fraction); otherwise it is null, also
\* when the best line contains more than half but at most 60% of them.
C13_KeywordAcceptance ==
  keywordStepTried =>
    acceptedAboveSixTenths(extractKeywords(commentText),
                           bestKeywordCount(extractKeywords(commentText)))

\* null although a line contains three of the five keywords
C13_Witness ==
  /\ keywordStepTried
  /\ returnedNull
  /\ Len(extractKeywords(commentText)) = 5
  /\ bestKeywordCount(extractKeywords(commentText)) = 3

-----------------------------------------------------------------------------
(* Claims about the response extractor, under Spec *)

hasExtracted == parsedReview # Pending

\* the answers of the pool that are the JSON text of an object
ObjectBodies == {body \in ReviewBodies : jsonParse(body).ok /\ jsonParse(body).val.t = "object"}

isClaude == toLowerCase(llmChoice) = <<"c","l","a","u","d","e">>

\* an object R of the pool with the two texts that hold it: the envelope around
\* the fenced block, and the fenced block alone
RoundTrips ==
  {[enveloped |-> Envelope(Fenced(body)),
    fenced |-> Fenced(body) \o <<NL>>,
    R |-> jsonParse(body).val] : body \in ObjectBodies}

OkReview == JObj(<<<<"s","u","m","m","a","r","y">>, <<"c","o","m","m","e","n","t","s">>>>, <<JStr(<<"o","k">>), JArr(<< >>)>>)

\* C11 - unwrap round trip: for the provider claude in any letter case, an
\* envelope whose result is a fenced block around the JSON text of an object R
\* parses to R, and so does the fenced block without the envelope, for any
\* provider; the text {"summary":"ok","comments":[]} is among them and parses
\* to an object with the summary "ok" and an empty comments sequence.
C11_UnwrapRoundTrip ==
  /\ \E t \in RoundTrips : t.R = OkReview
  /\ hasExtracted =>
       \A t \in RoundTrips :
         /\ (isClaude /\ review = t.enveloped) => parsedReview = Returned(t.R)
         /\ review = t.fenced => parsedReview = Returned(t.R)

\* an envelope from the provider spelled "Claude" has been unwrapped to a
\* review that has a comment
C11_Witness ==
  /\ hasExtracted
  /\ llmChoice = <<"C","l","a","u","d","e">>
  /\ \E t \in RoundTrips :
       /\ review = t.enveloped
       /\ parsedReview = Returned(t.R)
       /\ Len(commentsOf(t.R)) >= 1

-----------------------------------------------------------------------------
(* Claims about the prose fallback, under SpecProse *)

hasFileLineAndComment(c) ==
  /\ hasKey(c, <<"f","i","l","e">>)
  /\ hasKey(c, <<"l","i","n","e">>)
  /\ hasKey(c, <<"c","o","m","m","e","n","t">>)

summaryIn(v) == GetProp(v, <<"s","u","m","m","a","r","y">>)

\* C14 - the prose fallback always produces output: for the provider ollama in
\* any letter case and every text of the pool, the empty text among them,
\* parseReviewResponse returns an object (it does not throw) whose summary is a
\* non-empty string and whose comments hold at least one comment with file,
\* line and comment.
C14_ProseFallbackProducesOutput ==
  (hasExtracted /\ isOllama(llmChoice)) =>
    /\ parsedReview.kind = "value"
    /\ parsedReview.value.t = "object"
    /\ summaryIn(parsedReview.value).t = "string"
    /\ summaryIn(parsedReview.value).s # << >>
    /\ \E k \in 1..Len(commentsOf(parsedReview.value)) :
         hasFileLineAndComment(commentsOf(parsedReview.value)[k])

\* the empty text has been converted for the provider spelled "Ollama": the
\* summary is the default text and the one comment is the catch-all comment
C14_Witness ==
  /\ hasExtracted
  /\ llmChoice = <<"O","l","l","a","m","a">>
  /\ review = << >>
  /\ parsedReview.kind = "value"
  /\ summaryIn(parsedReview.value).s = summaryOf(<< >>)
  /\ commentsOf(parsedReview.value) = <<generalComment(<< >>)>>

\* the scan of the prose made no comment of any line
noCommentSynthesized ==
  scanned(nonBlankLinesOf(trim(review))).comments = << >>

\* the first key of the mapping parsed from the context blob
firstKnownFile == parseFileContents(fileContext).keys[1]

hasKnownFile == Len(parseFileContents(fileContext).keys) >= 1

\* C15 - the catch-all comment targets a reviewed file: when the scan made no
\* comment of any line, the review has exactly one comment, its line is 1 and
\* its file is the first key of the mapping parsed from the context blob.
C15_CatchAllTargetsReviewedFile ==
  (hasExtracted /\ isOllama(llmChoice) /\ hasKnownFile /\ noCommentSynthesized) =>
    /\ Len(commentsOf(parsedReview.value)) = 1
    /\ GetProp(commentsOf(parsedReview.value)[1], <<"l","i","n","e">>) = JInt(1)
    /\ GetProp(commentsOf(parsedReview.value)[1], <<"f","i","l","e">>)
         = JStr(firstKnownFile)

-----------------------------------------------------------------------------
(* Claims about the context blob, under SpecContext *)

\* the mapping the files themselves give: every readable file whose text has
\* more than blank lines, in list order, with its text without the blank lines
\* at its ends
indexOfFiles(filePaths) ==
  LET F[k \in 0..Len(filePaths)] ==
        IF k = 0 THEN EmptyMap
        ELSE IF /\ filePaths[k].readable
                /\ stripBlankEnds(filePaths[k].content) # << >>
        THEN MapSet(F[k - 1], filePaths[k].path, stripBlankEnds(filePaths[k].content))
        ELSE F[k - 1]
  IN  F[Len(filePaths)]

hasReadContext == pc = "context"

\* C16 - context blob round trip: for every list of files with distinct
\* paths, parseFileContents of the blob that readFilesForContext builds is the
\* mapping from the readable files with a non-empty body, in list order, to
\* their own text without the blank lines at its ends, also when a text has a
\* line of the form "--- x ---".
C16_ContextBlobRoundTrip ==
  hasReadContext => parseFileContents(fileContext) = indexOfFiles(changedFiles)

-----------------------------------------------------------------------------
(* Claims about the snippet extractor, under SpecSnippet *)

hasSnippet == call.made /\ returned.kind = "value"

baseStartLine == Max2(1, returned.value.targetLine - call.contextLines)

baseEndLine == Min2(lineCountOfLast, returned.value.targetLine + call.contextLines)

\* C17: the window [startLine, endLine] of a snippet that extractCodeSnippet
\* returns contains the base window [max(1, target - r), min(lineCount,
\* target + r)] around the target line it reports.
C17_WindowContainsBaseWindow ==
  hasSnippet =>
    /\ returned.value.startLine <= baseStartLine
    /\ returned.value.endLine >= baseEndLine

\* C18: a call of extractCodeSnippet returns what the same call returns in a
\* process that has made no other call, whatever calls and cache clearings
\* came before it.
C18_CachesHaveNoEffect ==
  call.made =>
    returned = extractCodeSnippet(NoCaches, call.fileContent, call.lineNumber,
                                  call.contextLines, call.fileName)

-----------------------------------------------------------------------------
(* Claims about the snippet extractor, under SpecSnippetGrowth *)

\* C19: after any sequence of extractCodeSnippet calls neither patternCache
\* nor fileAnalysisCache holds more than MAX_CACHE_SIZE entries.
C19_CachesAreBounded ==
  /\ Len(patternCache.keys) <= MAX_CACHE_SIZE
  /\ Len(fileAnalysisCache.keys) <= MAX_CACHE_SIZE

-----------------------------------------------------------------------------
(* Claims about runCodeReview, under SpecLlmLive *)

\* '<LLM> CLI timed out after <timeout/1000> seconds' for the call made
timedOutMessage ==
  toUpperCase(llmName) \o <<" ","C","L","I"," ","t","i","m","e","d"," ","o","u","t"," ","a","f","t","e","r"," ">>
    \o secondsText(llmConfigOf(llmName).timeout) \o <<" ","s","e","c","o","n","d","s">>

\* C20: when the timer of runCodeReview fires, which it does only if neither
\* 'close' nor 'error' came before, the process has been killed and the
\* promise is rejected with '<LLM> CLI timed out after <timeout/1000>
\* seconds', whatever the process emits afterwards; and a pending promise
\* does not stay pending for ever.
C20_TimeoutKillsAndRejects ==
  /\ [](timeout = "fired" =>
          /\ llmProcess.kills > 0
          /\ promise = Rejected(timedOutMessage))
  /\ (promise.state = "pending" ~> promise.state # "pending")

\* the timer of a call for 'claude' has fired, and the process has closed
\* after it
C20_Witness ==
  /\ llmName = <<"c","l","a","u","d","e">>
  /\ timeout = "fired"
  /\ llmProcess.closed
  /\ promise.value = <<"C","L","A","U","D","E"," ","C","L","I"," ","t","i","m","e","d"," ","o","u","t"," ","a","f","t","e","r"," ","3","0","0"," ","s","e","c","o","n","d","s">>

-----------------------------------------------------------------------------
(* Claims about runCodeReview, under SpecLlm *)

\* the text of the 'data' events of a stream among the events, in their order
RECURSIVE textOfStream(_, _)
textOfStream(events, stream) ==
  IF events = << >> THEN << >>
  ELSE (IF Head(events).type = stream THEN bufferToString(Head(events).value) ELSE << >>)
         \o textOfStream(Tail(events), stream)

\* 'close', 'error' and the timer are the events that settle the promise
isSettling(event) == event.type \in {"close", "error", "timeout"}

hasSettling == \E k \in 1..Len(emitted) : isSettling(emitted[k])

\* the position of the first of them
firstSettling == CHOOSE k \in 1..Len(emitted) :
                   isSettling(emitted[k]) /\ \A j \in 1..(k - 1) : ~isSettling(emitted[j])

eventsBefore(k) == SubSeq(emitted, 1, k - 1)

\* '<LLM> CLI execution failed with code <code>: <stderr>' at the event k
failedMessageAt(k) ==
  toUpperCase(llmName) \o <<" ","C","L","I"," ","e","x","e","c","u","t","i","o","n"," ","f","a","i","l","e","d"," ","w","i","t","h"," ","c","o","d","e"," ">> \o codeText(emitted[k].value)
    \o <<":"," ">> \o textOfStream(eventsBefore(k), "stderr")

\* 'Failed to start <LLM> CLI: <message>' of the event k
startMessageAt(k) ==
  <<"F","a","i","l","e","d"," ","t","o"," ","s","t","a","r","t"," ">> \o toUpperCase(llmName) \o <<" ","C","L","I",":"," ">> \o emitted[k].value

\* what the claim says of a 'close' at k
closeOutcomeAt(k) ==
  /\ promise.state = "fulfilled" <=> emitted[k].value = JInt(0)
  /\ emitted[k].value = JInt(0) =>
       promise.value = textOfStream(eventsBefore(k), "stdout")
  /\ emitted[k].value # JInt(0) => promise = Rejected(failedMessageAt(k))

\* C21 as stated: when the process closes before the timeout, the promise
\* resolves iff the exit code is 0, with the concatenation of the stdout
\* chunks received before 'close', and with another code it rejects with the
\* message of the code and stderr; an 'error' event rejects with 'Failed to
\* start <LLM> CLI: <message>'.
C21_OutcomeOnClose ==
  /\ \A k \in 1..Len(emitted) :
       (emitted[k].type = "close" /\ \A j \in 1..(k - 1) : emitted[j].type # "timeout")
         => closeOutcomeAt(k)
  /\ \A k \in 1..Len(emitted) :
       emitted[k].type = "error" => promise = Rejected(startMessageAt(k))

\* C21 amended: the first of 'close' and 'error' decides, if no timeout came
\* before it.  A first 'close' resolves iff the exit code is 0, with the
\* concatenation of the text of each stdout chunk before it, and else rejects
\* with the message of the code and stderr; a first 'error' rejects with
\* 'Failed to start <LLM> CLI: <message>', whatever 'close' reports later.
C21_FirstEventDecides ==
  hasSettling =>
    /\ emitted[firstSettling].type = "close" => closeOutcomeAt(firstSettling)
    /\ emitted[firstSettling].type = "error" =>
         promise = Rejected(startMessageAt(firstSettling))

\* two stdout chunks that split a character, then 'close' with code 0
C21_Witness ==
  /\ Len(emitted) = 3
  /\ emitted[1] = Event("stdout", <<LeadByte>>)
  /\ emitted[2] = Event("stdout", <<TrailByte>>)
  /\ emitted[3] = Event("close", JInt(0))
  /\ promise = Fulfilled(<<ReplacementChar, ReplacementChar>>)

\* what the handler of the event k asks the promise to become
outcomeAskedAt(k) ==
  IF emitted[k].type = "timeout" THEN Rejected(timedOutMessage)
  ELSE IF emitted[k].type = "error" THEN Rejected(startMessageAt(k))
  ELSE IF emitted[k].value = JInt(0)
       THEN Fulfilled(textOfStream(eventsBefore(k), "stdout"))
  ELSE Rejected(failedMessageAt(k))

\* C27: under every interleaving of the timer, 'close' and 'error' the
\* promise is what the first of them to occur asked for, and once settled it
\* never changes (a 'close' with code 0 after the timeout does not resolve
\* it); the timer never fires after 'close' or 'error' has been handled, and
\* kill() is called at most once.
C27_SettlesExactlyOnce ==
  /\ [](/\ hasSettling => promise = outcomeAskedAt(firstSettling)
        /\ ~hasSettling => promise.state \in {"none", "pending"} \/ ~llmProcess.spawned
        /\ \A k \in 1..Len(emitted) :
             emitted[k].type = "timeout" =>
               \A j \in 1..(k - 1) : emitted[j].type \notin {"close", "error"}
        /\ llmProcess.kills <= 1)
  /\ [][promise.state \in {"fulfilled", "rejected"} => promise' = promise]_vars

\* the timer fired, then the process closed with code 0
C27_Witness ==
  /\ Len(emitted) = 2
  /\ emitted[1].type = "timeout"
  /\ emitted[2] = Event("close", JInt(0))
  /\ promise.state = "rejected"
  /\ llmProcess.kills = 1

-----------------------------------------------------------------------------
(* Claims about the lines of a snippet, under SpecSnippet *)

linesOfLast == split(call.fileContent, NL)

\* C30: a snippet that extractCodeSnippet returns for a file of N lines has
\* 1 <= startLine <= targetLine <= endLine <= N, its lines are the file lines
\* startLine..endLine in order, each with its text, and exactly one of them
\* is the target.
C30_SnippetInsideFile ==
  hasSnippet =>
    /\ 1 <= returned.value.startLine
    /\ returned.value.startLine <= returned.value.targetLine
    /\ returned.value.targetLine <= returned.value.endLine
    /\ returned.value.endLine <= lineCountOfLast
    /\ Len(returned.value.lines) = returned.value.endLine - returned.value.startLine + 1
    /\ \A k \in 1..Len(returned.value.lines) :
         /\ returned.value.lines[k].lineNumber = returned.value.startLine + k - 1
         /\ returned.value.lines[k].lineNumber \in 1..lineCountOfLast
         /\ returned.value.lines[k].content = linesOfLast[returned.value.lines[k].lineNumber]
    /\ Cardinality({k \in 1..Len(returned.value.lines) : returned.value.lines[k].isTarget}) = 1

-----------------------------------------------------------------------------
(* Claims about the reading of the files, under SpecContext *)

\* '--- <path> ---', the text of the file and a blank line
sectionOf(file) == <<"-","-","-"," ">> \o file.path \o <<" ","-","-","-">> \o <<NL>> \o file.content \o <<NL, NL>>

RECURSIVE sectionsOf(_)
sectionsOf(files) ==
  IF files = << >> THEN << >> ELSE sectionOf(Head(files)) \o sectionsOf(Tail(files))

isReadable(file) == file.readable

isUnreadable(file) == ~file.readable

isRead(effect) == effect.kind = "readFile"

isWarning(effect) == effect.kind = "warn"

\* C24: the blob of readFilesForContext is the sections of the files that
\* could be read, in list order, and nothing for a file whose read failed;
\* every file of the list is read, also after a failure, each failure gives
\* one warning, and an empty list gives the empty string without any read.
C24_UnreadableFilesAreSkipped ==
  hasReadContext =>
    /\ fileContext = sectionsOf(SelectSeq(changedFiles, isReadable))
    /\ SelectSeq(effects, isRead)
         = [k \in 1..Len(changedFiles) |-> Effect("readFile", changedFiles[k].path)]
    /\ Len(SelectSeq(effects, isWarning)) = Len(SelectSeq(changedFiles, isUnreadable))
    /\ \A k \in 1..Len(effects) : isRead(effects[k]) \/ isWarning(effects[k])
    /\ changedFiles = << >> => fileContext = << >> /\ effects = << >>

\* the first file could not be read, the second could
C24_Witness ==
  /\ hasReadContext
  /\ Len(changedFiles) = 2
  /\ ~changedFiles[1].readable
  /\ changedFiles[2].readable
  /\ fileContext = sectionOf(changedFiles[2])
  /\ Len(effects) = 3

-----------------------------------------------------------------------------
(* Claims about the order of the exact step, under SpecResolve *)

\* the snippets that pass the exact test on some line, by their place in the pool
exactlyMatching == {i \in 1..Len(codeSnippets) : matchesExactly(codeSnippets[i])}

\* the lines on which a snippet passes the exact test
linesMatching(snippet) == {k \in 1..Len(fileLines) : exactLineTest(snippet, fileLines[k])}

\* C25: the candidate snippets are without duplicates and of two characters
\* or more; the result is an exact_match iff some snippet matches a line, and
\* then it is the lowest line matching the first snippet, in pool order, that
\* matches any line: later snippets are not consulted, even when one of them
\* matches an earlier line.
C25_FirstMatchingSnippetDecides ==
  hasReturned =>
    /\ \A i, j \in 1..Len(codeSnippets) : i # j => codeSnippets[i] # codeSnippets[j]
    /\ \A i \in 1..Len(codeSnippets) : Len(codeSnippets[i]) >= 2
    /\ returnedBy(ExactMatch) <=> exactlyMatching # {}
    /\ exactlyMatching # {} =>
         /\ matchedCodeOf(outcome.value) = codeSnippets[SetMin(exactlyMatching)]
         /\ lineOf(outcome.value)
              = JInt(SetMin(linesMatching(codeSnippets[SetMin(exactlyMatching)])))

\* the first snippet matches line 2 only, a later snippet matches line 1
C25_Witness ==
  /\ returnedBy(ExactMatch)
  /\ lineOf(outcome.value) = JInt(2)
  /\ \E i \in exactlyMatching :
       /\ i > SetMin(exactlyMatching)
       /\ 1 \in linesMatching(codeSnippets[i])

-----------------------------------------------------------------------------
(* Claims about the reconciliation of the comments, under Spec *)

\* what findActualLineFromContent gives for one comment and the text of its
\* file in the context blob; nothing for a comment whose file has no text there
resolvedAlone(c) ==
  IF fileIsIndexed(c)
  THEN findActualLineFromContent(c, MapGet(parseFileContents(fileContext),
                                           GetProp(c, <<"f","i","l","e">>).s))
  ELSE ReturnedNull

\* the results that are comments, in the order of the comments
RECURSIVE resolvedInOrder(_)
resolvedInOrder(comments) ==
  IF comments = << >> THEN << >>
  ELSE (IF resolvedAlone(Head(comments)).kind = "value"
        THEN <<resolvedAlone(Head(comments)).value>> ELSE << >>)
         \o resolvedInOrder(Tail(comments))

reversed(seq) == [k \in 1..Len(seq) |-> seq[Len(seq) + 1 - k]]

\* the parsed review with its comments in the opposite order
reversedReview ==
  SetProp(parsedReview.value, <<"c","o","m","m","e","n","t","s">>,
          JArr(reversed(commentsOf(parsedReview.value))))

\* C26: the comments that validateAndFixLineNumbers returns are the non-null
\* results of findActualLineFromContent for the input comments, each resolved
\* alone against the text of its file, in the order of the input; the output
\* is never longer than the input, and the input in another order gives the
\* same results in that order.
C26_CommentsResolvedIndependently ==
  hasValidated =>
    /\ commentsOf(validatedReview.value) = resolvedInOrder(commentsOf(parsedReview.value))
    /\ Len(commentsOf(validatedReview.value)) <= Len(commentsOf(parsedReview.value))
    /\ validateAndFixLineNumbers(reversedReview, fileContext).kind = "value"
    /\ commentsOf(validateAndFixLineNumbers(reversedReview, fileContext).value)
         = resolvedInOrder(reversed(commentsOf(parsedReview.value)))

-----------------------------------------------------------------------------
(* Claims about the lines of the files as read, under Spec *)

\* the lines of the text read for a path, none when no file of the run that
\* could be read has the path
linesAsRead(path) ==
  IF \E k \in 1..Len(changedFiles) : changedFiles[k].readable /\ changedFiles[k].path = path
  THEN split(changedFiles[CHOOSE k \in 1..Len(changedFiles) :
                            changedFiles[k].readable /\ changedFiles[k].path = path].content,
             NL)
  ELSE << >>

\* line n of the file as read contains the text
lineAsReadContains(path, n, text) ==
  /\ n.t = "number" /\ n.d = 1
  /\ n.n \in 1..Len(linesAsRead(path))
  /\ includes(linesAsRead(path)[n.n], text)

\* C29: every comment that validateAndFixLineNumbers resolves by exact_match
\* to line n with the matched snippet s is on a file whose line n, in the text
\* as read from disk, contains s, also when the file begins with blank lines.
C29_ResolvedLineIsLineOfFile ==
  hasValidated =>
    \A k \in 1..Len(commentsOf(validatedReview.value)) :
      LET c == commentsOf(validatedReview.value)[k]
      IN  methodOf(c) = ExactMatch =>
            lineAsReadContains(GetProp(c, <<"f","i","l","e">>).s, lineOf(c), matchedCodeOf(c))

-----------------------------------------------------------------------------
(* Claims about cleanupDirectory, under SpecCleanup *)

\* the path is a non-empty string
isNonEmptyPath(path) == path.t = "string" /\ path.s # << >>

\* the path begins with the temporary directory of the machine and the prefix
isUnderTemporaryPrefix(path) ==
  /\ isNonEmptyPath(path)
  /\ Len(path.s) >= Len(tmpdir) + 1 + Len(tempDirPrefix)
  /\ SubSeq(path.s, 1, Len(tmpdir)) = tmpdir
  /\ path.s[Len(tmpdir) + 1] = "/"
  /\ SubSeq(path.s, Len(tmpdir) + 2, Len(tmpdir) + 1 + Len(tempDirPrefix)) = tempDirPrefix

\* the kinds of the effects, in order
kindsOf(done) == [k \in 1..Len(done) |-> done[k].kind]

\* C22: a call of cleanupDirectory invokes fs.rm only when its argument is a
\* non-empty path that starts with <os tmpdir>/<tempDirPrefix>, and then on
\* that very path; for any other non-empty path it only warns and deletes
\* nothing; for an undefined or empty path it neither deletes nor logs.
C22_DeletesOnlyUnderTemporaryPrefix ==
  [][LET done == SubSeq(effects', Len(effects) + 1, Len(effects'))
     IN  /\ (\E k \in 1..Len(done) : done[k].kind = "rm") => isUnderTemporaryPrefix(directoryPath')
         /\ isUnderTemporaryPrefix(directoryPath') =>
              /\ kindsOf(done) = <<"log", "rm">>
              /\ done[2].value = directoryPath'.s
         /\ (isNonEmptyPath(directoryPath') /\ ~isUnderTemporaryPrefix(directoryPath')) =>
              kindsOf(done) = <<"warn">>
         /\ ~isNonEmptyPath(directoryPath') => done = << >>]_vars

\* a directory was deleted, another path was only warned about, and the last
\* call had no path and did nothing
C22_Witness ==
  /\ directoryPath = JUndef
  /\ kindsOf(effects) = <<"log", "rm", "warn">>
  /\ effects[2].value = <<"/","t","m","p","/","g","i","t","l","a","b","-","r","e","v","i","e","w","-","a","b","c","1","2","3">>
  /\ effects[3].value = <<"S","k","i","p","p","i","n","g"," ","c","l","e","a","n","u","p"," ","o","f"," ","n","o","n","-","t","e","m","p","o","r","a","r","y"," ","d","i","r","e","c","t","o","r","y",":"," ","/","t","m","p","/","g","i","t","l","a","b","-","r","e","v","i","e","w">>

-----------------------------------------------------------------------------
(* Claims about performGitLabReview, under SpecGitLab and SpecGitLabLive *)

\* the merge request has a discussion that is resolvable and not resolved
hasUnresolvedDiscussion ==
  \E k \in 1..Len(discussions) : discussions[k].resolvable /\ ~discussions[k].resolved

\* GitLab has answered the request for the discussions: the spinner of the
\* check has been ended, one way or the other
discussionsChecked == \E k \in 1..Len(effects) : effects[k].kind = "spinner"

\* the process has ended, or performGitLabReview has returned
runEnded == step \in {"exited", "returned"}

\* the steps that unresolved discussions are to block
BlockedKinds == {"mkdtemp", "clone", "llm", "output"}

\* C23: when the merge request has a discussion that is resolvable and not
\* resolved, the run creates no temporary directory, clones nothing, never
\* runs the LLM and calls no output handler, and once the discussions are
\* obtained it fails with 'Unresolved discussions found'; and in every run
\* the check of the discussions comes before any of those steps.
C23_UnresolvedDiscussionsBlock ==
  /\ hasUnresolvedDiscussion =>
       /\ \A k \in 1..Len(effects) : effects[k].kind \notin BlockedKinds
       /\ createdDirectory = JNull
       /\ step # "returned"
       /\ discussionsChecked =>
            /\ thrown = <<"U","n","r","e","s","o","l","v","e","d"," ","d","i","s","c","u","s","s","i","o","n","s"," ","f","o","u","n","d">>
            /\ step \in {"catch", "exited"}
       /\ (discussionsChecked /\ runEnded) =>
            /\ step = "exited"
            /\ effects[Len(effects) - 1] = Effect("error", thrown)
            /\ effects[Len(effects)].kind = "exit"
  /\ \A k \in 1..Len(effects) :
       effects[k].kind \in BlockedKinds =>
         \E j \in 1..(k - 1) : effects[j].kind = "spinner"

\* the second of two discussions is resolvable and not resolved, and the
\* process has ended on the error of the check
C23_Witness ==
  /\ Len(discussions) = 2
  /\ ~discussions[1].resolvable
  /\ discussions[2].resolvable /\ ~discussions[2].resolved
  /\ step = "exited"
  /\ discussionsChecked

\* C28: whenever createTemporaryDirectory has succeeded, cleanupDirectory is
\* eventually invoked on the directory it created, on the success path and on
\* every failure path after the creation.
C28_TemporaryCloneCleanedUp ==
  [](createdDirectory # JNull => <>(directoryPath = createdDirectory))

=============================================================================
